---- MODULE Spec2Model ----
(***************************************************************************)
(* Model of wharf-provider-azuredevops: the import handler, the importer   *)
(* (azureImporter), the Azure DevOps API client and the naming translator  *)
(* (ParseRepoRefParams).                                                   *)
(*                                                                         *)
(* Strings are modelled as sequences of one-character strings, so that    *)
(* splitting, prefix trimming and "%s/%s" formatting are computed and not  *)
(* assumed.                                                                *)
(***************************************************************************)
EXTENDS Integers, Sequences, FiniteSets, TLC

VARIABLES
    \* --- the naming translator on its own
    parseIn,      \* arguments handed to ParseRepoRefParams: <<wharfGroupName, wharfProjectName>>
    parseOut,     \* its result <<azureOrgName, azureProjectName, azureRepoName>>, or NoResult
    \* --- other parts of the program on their own
    splitIn,      \* the value handed to splitStringOnceRune
    splitOut,     \* its result <<a, b>>, or NoResult
    httpIn,       \* the HTTP exchange one provider GET ends in
    httpOut,      \* what each version of getBodyFromRequest returned for it
    event,        \* the trigger request: pull request event, path and query
    workers,      \* import requests served at the same time: request -> its state
    \* --- the Azure DevOps side (remote provider), read-only for the importer
    azProjects,   \* projects of the organization, in listing order
    azRefs,       \* repository id -> git refs under refs/heads/, in listing order
    \* --- the Wharf API side (orchestration API): the only persisted state
    tokens,       \* token records, TokenID = position
    providers,    \* provider records, ProviderID = position
    projects,     \* project records, ProjectID = position
    branches,     \* set of branch records [projectID, name, default]
    \* --- one import request (gin.Context + azureImporter + handler locals)
    pc,           \* position of the handler
    body,         \* importBody of the request
    resp,         \* what was written to the gin.Context: sequence of writes
    resToken,     \* azureImporter.resToken
    resProvider,  \* azureImporter.resProvider
    scope,        \* <<azureOrg, azureProj, azureRepo>> of the handler, or NoResult
    projQueue,    \* ImportOrganizationWritesProblem: projects still to range over
    projArg,      \* projectNameOrID handed to ImportProjectWritesProblem
    repoQueue,    \* ImportProjectWritesProblem: repositories still to range over
    repo,         \* importKnownRepositoryWritesProblem: the repository in hand
    buildDef,     \* its build definition text
    repoBranches, \* its branches, as fetched
    branchQueue,  \* importBranchesWritesProblem: branches still to range over
    wharfProject, \* the response.Project returned by createOrUpdateWharfProject
    calls,        \* outbound calls made by the request, in order
    listing,      \* repositories the provider listed to the request, in order
    failedRepo,   \* id of the repository whose import failed, or EmptyString
    runs,         \* number of requests received so far
    changes,      \* number of upstream changes so far
    faults        \* number of calls that failed for a reason outside the data

parseVars == <<parseIn, parseOut>>

partVars == <<splitIn, splitOut, httpIn, httpOut, event, workers>>

azureVars == <<azProjects, azRefs>>

wharfVars == <<tokens, providers, projects, branches>>

reqVars == <<pc, body, resp, resToken, resProvider, scope, projQueue, projArg,
             repoQueue, repo, buildDef, repoBranches, branchQueue, wharfProject,
             calls, listing, failedRepo>>

envVars == <<runs, changes, faults>>

vars == <<parseVars, partVars, azureVars, wharfVars, reqVars, envVars>>

\* "No result yet" of a function whose results are non-empty tuples.
NoResult == <<>>

EmptyString == <<>>

(***************************************************************************)
(* Bounds of the string universe used to exercise the pure functions.      *)
(***************************************************************************)
MaxGroupLen == 5

MaxProjectLen == 1

Alphabet == {"a", "b", "/"}

RECURSIVE StringsOfLen(_)
StringsOfLen(n) ==
    IF n = 0 THEN {EmptyString}
    ELSE {Append(s, c) : s \in StringsOfLen(n - 1), c \in Alphabet}

GroupStrings == UNION {StringsOfLen(n) : n \in 0..MaxGroupLen}

ProjectStrings == UNION {StringsOfLen(n) : n \in 0..MaxProjectLen}

Contains(value, d) == \E i \in 1..Len(value) : value[i] = d

(***************************************************************************)
(* internal/parseutil: splitStringOnceRune and ParseRepoRefParams          *)
(***************************************************************************)
notFoundIndex == -1

\* A Go string is a sequence of bytes and a rune is written in it as its UTF-8
\* encoding: one byte for 'a', 'b' and '/', the two bytes C3 A9 for U+00E9.
EncodeRune(r) == IF r = "U+00E9" THEN <<"C3", "A9">> ELSE <<r>>

\* strings.IndexRune: 0-based byte index of the first occurrence of the rune's
\* encoding, or -1.
IndexRune(value, d) ==
    LET sub == EncodeRune(d)
        hits == {i \in 1..(Len(value) - Len(sub) + 1) :
                     SubSeq(value, i, i + Len(sub) - 1) = sub}
    IN IF hits = {} THEN -1
       ELSE (CHOOSE i \in hits : \A j \in hits : i <= j) - 1

\* A split on the LAST occurrence of the delimiter (strings.LastIndex in place
\* of strings.IndexRune).
splitStringOnceRune_Last(value, d) ==
    IF ~Contains(value, d) THEN <<value, EmptyString>>
    ELSE LET i == CHOOSE k \in 1..Len(value) :
                      value[k] = d /\ \A j \in (k + 1)..Len(value) : value[j] # d
         IN <<SubSeq(value, 1, i - 1), SubSeq(value, i + 1, Len(value))>>

splitStringOnceRune(value, d) ==
    LET delimiterIndex == IndexRune(value, d)
    IN IF delimiterIndex = notFoundIndex
       THEN <<value, EmptyString>>
       ELSE <<SubSeq(value, 1, delimiterIndex),                 \* value[:delimiterIndex]
              SubSeq(value, delimiterIndex + 2, Len(value))>>   \* value[delimiterIndex+1:]

\* The two branches taken the wrong way round.
ParseRepoRefParams_Swapped(wharfGroupName, wharfProjectName) ==
    LET ab == splitStringOnceRune(wharfGroupName, "/")
    IN IF ab[2] # EmptyString
       THEN <<ab[1], wharfProjectName, EmptyString>>
       ELSE <<ab[1], ab[2], wharfProjectName>>

\* The legacy branch keeping the whole group name as the organization.
ParseRepoRefParams_KeepGroup(wharfGroupName, wharfProjectName) ==
    LET ab == splitStringOnceRune(wharfGroupName, "/")
    IN IF ab[2] = EmptyString
       THEN <<wharfGroupName, wharfProjectName, EmptyString>>
       ELSE <<ab[1], ab[2], wharfProjectName>>

\* The split done on the last '/' of the group name.
ParseRepoRefParams_SplitLast(wharfGroupName, wharfProjectName) ==
    LET ab == splitStringOnceRune_Last(wharfGroupName, "/")
    IN IF ab[2] = EmptyString
       THEN <<ab[1], wharfProjectName, EmptyString>>
       ELSE <<ab[1], ab[2], wharfProjectName>>

ParseRepoRefParams(wharfGroupName, wharfProjectName) ==
    LET ab == splitStringOnceRune(wharfGroupName, "/")
    IN IF ab[2] = EmptyString
       THEN <<ab[1], wharfProjectName, EmptyString>>
       ELSE <<ab[1], ab[2], wharfProjectName>>

(***************************************************************************)
(* Bounds of the import model.                                             *)
(***************************************************************************)
\* Number of import requests received one after the other.
MaxRuns == 2

\* Number of changes made upstream (in Azure DevOps) between requests.
MaxUpstreamChanges == 1

\* Number of calls, over all requests, that fail for a reason outside the data:
\* a Wharf API call that returns an error, a provider that answers 503 or not
\* at all.
MaxFaults == 1

(***************************************************************************)
(* importer constants (importer.go const block)                            *)
(***************************************************************************)
apiProviderName == "azuredevops"

buildDefinitionFileName == ".wharf-ci.yml"

\* net/http status codes the code names.
StatusNotFound == 404

StatusCreated == 201

StatusBadRequest == 400

Slash == <<"/">>

\* fmt.Sprintf("%s/%s", a, b)
SprintfSlash(a, b) == a \o Slash \o b

HasPrefix(s, prefix) ==
    /\ Len(s) >= Len(prefix)
    /\ SubSeq(s, 1, Len(prefix)) = prefix

\* strings.TrimPrefix
TrimPrefix(s, prefix) ==
    IF HasPrefix(s, prefix) THEN SubSeq(s, Len(prefix) + 1, Len(s)) ELSE s

(***************************************************************************)
(* The Azure DevOps organization the requests are run against.             *)
(***************************************************************************)
OrgName == <<"O">>

refBranchesFilter == <<"h", "e", "a", "d", "s", "/">>

refBranchesPrefix == <<"r", "e", "f", "s", "/">> \o refBranchesFilter

HeadRef(name) == refBranchesPrefix \o name

\* azureapi.Project values served by the provider.
AzureProjectP == [id |-> <<"1">>, name |-> <<"P">>, description |-> "about P"]

AzureProjectQ == [id |-> <<"2">>, name |-> <<"Q">>, description |-> "about Q"]

\* The repositories of the organization, in the order the provider lists them.
\* file is the content of .wharf-ci.yml at the root, or FileAbsent.
FileAbsent == "<absent>"

AzureRepos ==
    << [id |-> <<"7">>, name |-> <<"r">>, projectName |-> <<"P">>,
        defaultBranchRef |-> HeadRef(<<"m">>), sshURL |-> "git@ssh:O/P/r",
        file |-> "stages-of-r"],
       [id |-> <<"8">>, name |-> <<"s">>, projectName |-> <<"P">>,
        defaultBranchRef |-> HeadRef(<<"m">>), sshURL |-> "git@ssh:O/P/s",
        file |-> FileAbsent],
       [id |-> <<"9">>, name |-> <<"t">>, projectName |-> <<"Q">>,
        defaultBranchRef |-> HeadRef(<<"x">>), sshURL |-> "git@ssh:O/Q/t",
        file |-> "stages-of-t"] >>

RepoIDs == {AzureRepos[k].id : k \in 1..Len(AzureRepos)}

AzureRefsInit ==
    [id \in RepoIDs |->
        CASE id = <<"7">> -> <<HeadRef(<<"m">>), HeadRef(<<"d">>)>>
          [] id = <<"8">> -> <<HeadRef(<<"m">>)>>
          [] OTHER -> <<HeadRef(<<"d">>)>>]

\* Zero values of the Go structs.
NoAzureProject == [id |-> EmptyString, name |-> EmptyString, description |-> ""]

NoRepo == [id |-> EmptyString, name |-> EmptyString, project |-> NoAzureProject,
           defaultBranchRef |-> EmptyString, sshURL |-> ""]

NoToken == [tokenID |-> 0, token |-> "", userName |-> "", providerID |-> 0]

NoProvider == [providerID |-> 0, name |-> "", url |-> "", tokenID |-> 0]

NoProject == [projectID |-> 0, name |-> EmptyString, groupName |-> EmptyString,
              tokenID |-> 0, buildDefinition |-> "", description |-> "",
              providerID |-> 0, gitURL |-> "", remoteProjectID |-> EmptyString]

SeqToSet(s) == {s[k] : k \in 1..Len(s)}

\* The provider resolves a project (a repository) by its name or by its ID.
MatchesNameOrID(x, nameOrID) == x.name = nameOrID \/ x.id = nameOrID

ProjectKnown(orgName, projectNameOrID) ==
    /\ orgName = OrgName
    /\ \E k \in 1..Len(azProjects) : MatchesNameOrID(azProjects[k], projectNameOrID)

ProjectNamed(projectNameOrID) ==
    azProjects[CHOOSE k \in 1..Len(azProjects) :
                   MatchesNameOrID(azProjects[k], projectNameOrID)]

ProjectByName(name) ==
    azProjects[CHOOSE k \in 1..Len(azProjects) : azProjects[k].name = name]

\* The azureapi.Repository the provider's JSON unmarshals to.
RepositoryJSON(r) ==
    [id |-> r.id, name |-> r.name, project |-> ProjectByName(r.projectName),
     defaultBranchRef |-> r.defaultBranchRef, sshURL |-> r.sshURL]

RECURSIVE SelectRepos(_, _)
SelectRepos(rs, projectName) ==
    IF rs = <<>> THEN <<>>
    ELSE (IF Head(rs).projectName = projectName
          THEN <<RepositoryJSON(Head(rs))>> ELSE <<>>)
         \o SelectRepos(Tail(rs), projectName)

\* GET {org}/{project}/_apis/git/repositories
RepositoriesOf(projectNameOrID) ==
    SelectRepos(AzureRepos, ProjectNamed(projectNameOrID).name)

RepoKnown(orgName, projectNameOrID, repoNameOrID) ==
    /\ ProjectKnown(orgName, projectNameOrID)
    /\ \E k \in 1..Len(AzureRepos) :
           /\ AzureRepos[k].projectName = ProjectNamed(projectNameOrID).name
           /\ MatchesNameOrID(AzureRepos[k], repoNameOrID)

StaticRepo(projectNameOrID, repoNameOrID) ==
    AzureRepos[CHOOSE k \in 1..Len(AzureRepos) :
                   /\ AzureRepos[k].projectName = ProjectNamed(projectNameOrID).name
                   /\ MatchesNameOrID(AzureRepos[k], repoNameOrID)]

(***************************************************************************)
(* pkg/requests: one GET against the provider.  An HTTP exchange is        *)
(* [transport, status, payload]: transport = FALSE when http.Client.Do     *)
(* returned an error, else the response status and its body.               *)
(***************************************************************************)
NoPayload == <<>>

NoError == [kind |-> "nil", statusCode |-> 0]

TransportError == [kind |-> "transport", statusCode |-> 0]

\* What the provider may answer for a resource: the resource when it exists,
\* 404 when it does not, and at any time a server error or no answer at all.
ExchangeKinds == {"answer", "unavailable", "unreachable"}

\* The exchanges and the Wharf API results still possible within MaxFaults.
ExchangeOutcomes == IF faults < MaxFaults THEN ExchangeKinds ELSE {"answer"}

APIOutcomes == IF faults < MaxFaults THEN BOOLEAN ELSE {TRUE}

CountExchange(kind) == faults' = IF kind = "answer" THEN faults ELSE faults + 1

CountAPI(apiOK) == faults' = IF apiOK THEN faults ELSE faults + 1

Exchange(kind, found, payload) ==
    CASE kind = "answer" /\ found ->
             [transport |-> TRUE, status |-> 200, payload |-> payload]
      [] kind = "answer" /\ ~found ->
             [transport |-> TRUE, status |-> 404, payload |-> NoPayload]
      [] kind = "unavailable" ->
             [transport |-> TRUE, status |-> 503, payload |-> NoPayload]
      [] OTHER ->
             [transport |-> FALSE, status |-> 0, payload |-> NoPayload]

\* errors.go: newNon2xxStatusError
newNon2xxStatusError(x) == [kind |-> "Non2xxStatusError", statusCode |-> x.status]

\* requests.go: the status test of getBodyFromRequest
IsNon2xx(status) == status < 200 \/ status >= 300

\* getBodyFromRequest: <<body, err>>
getBodyFromRequest(x) ==
    IF ~x.transport THEN <<NoPayload, TransportError>>
    ELSE IF IsNon2xx(x.status) THEN <<NoPayload, newNon2xxStatusError(x)>>
    ELSE <<x.payload, NoError>>

\* GetAsString and GetUnmarshalJSON hand the error through.
GetAsString(x) == getBodyFromRequest(x)

GetUnmarshalJSON(x) == getBodyFromRequest(x)

\* GetFileWritesProblem: errors.As(err, &non2xxErr) && StatusCode == 404,
\* with the status test dropped.
IsFileNotFound_AnyNon2xx(err) == err.kind = "Non2xxStatusError"

\* ... and with the not-found case treated as any other error.
IsFileNotFound_Never(err) == FALSE

IsFileNotFound(err) ==
    err.kind = "Non2xxStatusError" /\ err.statusCode = StatusNotFound

(***************************************************************************)
(* The Wharf API (wharfapi.Client): every call may also come back with an  *)
(* error, which the actions draw with \E apiOK \in BOOLEAN.                *)
(***************************************************************************)
\* GET /token?userName=
GetTokenList(userName) ==
    LET Test(t) == t.userName = userName IN SelectSeq(tokens, Test)

\* GET /provider?name=&url=
GetProviderList(name, url) ==
    LET Test(p) == p.name = name /\ p.url = url IN SelectSeq(providers, Test)

\* GET /project?name=&groupName=&providerId=
GetProjectList(name, groupName, providerID) ==
    LET Test(p) == /\ p.name = name
                   /\ p.groupName = groupName
                   /\ p.providerID = providerID
    IN SelectSeq(projects, Test)

\* POST /project/{projectId}/branch: the branch is added to the project's
\* branches (a branch of that name is overwritten); no other branch is removed.
WithProjectBranch(bs, projectID, branch) ==
    {b \in bs : ~(b.projectID = projectID /\ b.name = branch.name)}
        \cup {[projectID |-> projectID, name |-> branch.name, default |-> branch.default]}

(***************************************************************************)
(* What is written to the gin.Context.                                     *)
(***************************************************************************)
\* The problem writers of ginutil: invalid input gives 400, the others 502.
ProblemStatus(name) ==
    IF name \in {"WriteInvalidParamError", "WriteInvalidBindError"}
    THEN StatusBadRequest ELSE 502

Problem(name, field) ==
    [kind |-> "problem", name |-> name, field |-> field, status |-> ProblemStatus(name)]

StatusWrite(status) ==
    [kind |-> "status", name |-> "Status", field |-> "", status |-> status]

ProblemWritten == \E k \in 1..Len(resp) : resp[k].kind = "problem"

CreatedWritten ==
    \E k \in 1..Len(resp) : resp[k].kind = "status" /\ resp[k].status = StatusCreated

Call(sys, op, repoID, arg) == [sys |-> sys, op |-> op, repo |-> repoID, arg |-> arg]

CallsOf(op) == {k \in 1..Len(calls) : calls[k].op = op}

(***************************************************************************)
(* Import requests (importBody).                                           *)
(***************************************************************************)
GoodURL == "https://dev.azure.com"

\* <<group, project>> of the requests.
ScopeChoices ==
    { <<EmptyString, <<"P">>>>,               \* no group
      <<OrgName, EmptyString>>,               \* a whole organization
      <<OrgName, <<"P">>>>,                   \* legacy form: a whole project
      <<OrgName, <<"1">>>>,                   \* ... named by its ID
      <<OrgName, <<"X">>>>,                   \* ... that does not exist
      <<SprintfSlash(OrgName, <<"P">>), <<"r">>>> }  \* one repository

\* <<tokenId, user, token, providerId>> of the requests.
CredentialChoices ==
    { <<0, "u", "k", 0>>,
      <<0, "u", "k2", 0>>,
      <<0, "", "", 0>>,
      <<1, "", "", 1>> }

OtherURL == "https://azure.example.org"

\* <<user, token, url>> of further requests, for a project that does not
\* exist: half a credential, and a second Azure DevOps server.
FurtherChoices ==
    { <<"", "k", GoodURL>>, <<"u", "", GoodURL>>, <<"u", "k", OtherURL>> }

Bodies ==
    { [tokenID |-> c[1], userName |-> c[2], token |-> c[3], providerID |-> c[4],
       url |-> GoodURL, groupName |-> s[1], projectName |-> s[2]] :
        c \in CredentialChoices, s \in ScopeChoices }
    \cup
    { [tokenID |-> 0, userName |-> f[1], token |-> f[2], providerID |-> 0,
       url |-> f[3], groupName |-> OrgName, projectName |-> <<"X">>] :
        f \in FurtherChoices }

NoBody == [tokenID |-> 0, userName |-> "", token |-> "", providerID |-> 0,
           url |-> "", groupName |-> EmptyString, projectName |-> EmptyString]

\* url.Parse fails on no URL the requests carry.
URLParses(u) == TRUE

(***************************************************************************)
(* The parts modelled on their own, at rest: nothing split, no GET made,    *)
(* no trigger received, no requests served side by side.                   *)
(***************************************************************************)
\* The HTTP exchange of a GET that was never made.
NoExchange == [transport |-> FALSE, status |-> 0, readable |-> FALSE,
               payload |-> NoPayload]

\* azureapi.PullRequestEvent{} with no path and no query parameter.
NoEvent == [bind |-> FALSE, eventType |-> "", sourceRefName |-> EmptyString,
            projectid |-> "", environment |-> ""]

InitParts ==
    /\ splitIn = EmptyString
    /\ splitOut = NoResult
    /\ httpIn = NoExchange
    /\ httpOut = NoResult
    /\ event = NoEvent
    /\ workers = <<>>

(***************************************************************************)
(* Initial state: nothing imported yet, no request in progress.            *)
(***************************************************************************)
loopVars == <<projQueue, projArg, repoQueue, repo, buildDef, repoBranches,
              branchQueue, wharfProject, listing>>

idVars == <<resToken, resProvider>>

InitImport ==
    /\ azProjects = <<AzureProjectP, AzureProjectQ>>
    /\ azRefs = AzureRefsInit
    /\ tokens = <<>>
    /\ providers = <<>>
    /\ projects = <<>>
    /\ branches = {}
    /\ pc = "idle"
    /\ body = NoBody
    /\ resp = <<>>
    /\ resToken = NoToken
    /\ resProvider = NoProvider
    /\ scope = NoResult
    /\ projQueue = <<>>
    /\ projArg = EmptyString
    /\ repoQueue = <<>>
    /\ repo = NoRepo
    /\ buildDef = ""
    /\ repoBranches = <<>>
    /\ branchQueue = <<>>
    /\ wharfProject = NoProject
    /\ calls = <<>>
    /\ listing = <<>>
    /\ failedRepo = EmptyString
    /\ runs = 0
    /\ changes = 0
    /\ faults = 0

Init ==
    /\ InitImport
    /\ InitParts
    /\ parseIn = <<EmptyString, EmptyString>>
    /\ parseOut = NoResult

\* A step of the handler that writes a problem and returns.
Fails(name, field) ==
    /\ resp' = Append(resp, Problem(name, field))
    /\ pc' = "done"

\* Where the handler goes when the import of one repository has failed: the
\* loops of ImportProjectWritesProblem and ImportOrganizationWritesProblem
\* return false, here written as a loop that goes on with the next repository.
AfterFailedRepo_Continue ==
    IF scope[3] = EmptyString THEN "repoLoop" ELSE "done"

AfterFailedRepo == "done"

FailsRepo(name, field) ==
    /\ resp' = Append(resp, Problem(name, field))
    /\ pc' = AfterFailedRepo
    /\ failedRepo' = IF failedRepo = EmptyString THEN repo.id ELSE failedRepo

(***************************************************************************)
(* runAzureDevOpsHandler, up to the call of InitWritesProblem.             *)
(***************************************************************************)
\* The handler without its test of the group.
GroupIsMissing_Never(b) == FALSE

\* if i.GroupName == "" {
GroupIsMissing(b) == b.groupName = EmptyString

ReceiveRequest ==
    /\ pc \in {"idle", "done"}
    /\ runs < MaxRuns
    /\ runs' = runs + 1
    /\ \E b \in Bodies :
        /\ body' = b
        /\ IF GroupIsMissing(b)
           THEN /\ resp' = <<Problem("WriteInvalidParamError", "group")>>
                /\ pc' = "done"
           ELSE /\ resp' = <<>>
                /\ pc' = "getToken"
    \* importer.NewAzureImporter and the handler's fresh locals
    /\ resToken' = NoToken
    /\ resProvider' = NoProvider
    /\ scope' = NoResult
    /\ projQueue' = <<>>
    /\ projArg' = EmptyString
    /\ repoQueue' = <<>>
    /\ repo' = NoRepo
    /\ buildDef' = ""
    /\ repoBranches' = <<>>
    /\ branchQueue' = <<>>
    /\ wharfProject' = NoProject
    /\ calls' = <<>>
    /\ listing' = <<>>
    /\ failedRepo' = EmptyString
    /\ UNCHANGED <<parseVars, partVars, azureVars, wharfVars, changes, faults>>

(***************************************************************************)
(* getOrPostTokenWritesProblem                                             *)
(***************************************************************************)
GetTokenByID ==
    /\ pc = "getToken"
    /\ body.tokenID # 0
    /\ calls' = Append(calls, Call("wharf", "GetToken", EmptyString, body.tokenID))
    /\ \E apiOK \in APIOutcomes :
        /\ CountAPI(apiOK)
        /\ IF apiOK /\ body.tokenID \in 1..Len(tokens)
           THEN /\ resToken' = tokens[body.tokenID]
                /\ pc' = "getProvider"
                /\ UNCHANGED resp
           ELSE /\ Fails("WriteAPIClientReadError", "")
                /\ UNCHANGED resToken
    /\ UNCHANGED <<parseVars, partVars, azureVars, wharfVars, body, resProvider, scope,
                   loopVars, failedRepo, runs, changes>>

\* The validation with "or" in the place of "and".
TokenIsEmpty_Either(userName, token) == userName = "" \/ token = ""

\* if tokenData.UserName == "" && tokenData.Token == "" {
TokenIsEmpty(userName, token) == userName = "" /\ token = ""

RejectEmptyToken ==
    /\ pc = "getToken"
    /\ body.tokenID = 0
    /\ TokenIsEmpty(body.userName, body.token)
    /\ Fails("WriteInvalidParamError", "token")
    /\ UNCHANGED <<parseVars, partVars, azureVars, wharfVars, body, idVars, scope,
                   loopVars, calls, failedRepo, runs, changes, faults>>

\* for _, t := range searchResults.List { if t.Token == tokenData.Token ...
FoundTokens(list, secret) ==
    LET Test(t) == t.token = secret IN SelectSeq(list, Test)

SearchToken ==
    /\ pc = "getToken"
    /\ body.tokenID = 0
    /\ ~TokenIsEmpty(body.userName, body.token)
    /\ calls' = Append(calls, Call("wharf", "GetTokenList", EmptyString, body.userName))
    /\ \E apiOK \in APIOutcomes :
        /\ CountAPI(apiOK)
        /\ LET list == IF apiOK THEN GetTokenList(body.userName) ELSE <<>>
               found == FoundTokens(list, body.token)
           IN IF ~apiOK \/ Len(list) = 0
              THEN /\ pc' = "createToken"
                   /\ UNCHANGED <<resToken, resp>>
              ELSE IF found # <<>>
              THEN /\ resToken' = Head(found)
                   /\ pc' = "getProvider"
                   /\ UNCHANGED resp
              ELSE \* return foundToken, found: false, and nothing is written
                   /\ pc' = "done"
                   /\ UNCHANGED <<resToken, resp>>
    /\ UNCHANGED <<parseVars, partVars, azureVars, wharfVars, body, resProvider, scope,
                   loopVars, failedRepo, runs, changes>>

CreateToken ==
    /\ pc = "createToken"
    /\ calls' = Append(calls, Call("wharf", "CreateToken", EmptyString, body.userName))
    /\ \E apiOK \in APIOutcomes :
        /\ CountAPI(apiOK)
        /\ IF apiOK
           THEN LET created == [tokenID |-> Len(tokens) + 1, token |-> body.token,
                                userName |-> body.userName,
                                providerID |-> resProvider.providerID]
                IN /\ tokens' = Append(tokens, created)
                   /\ resToken' = created
                   /\ pc' = "getProvider"
                   /\ UNCHANGED resp
           ELSE /\ Fails("WriteAPIClientWriteError", "")
                /\ UNCHANGED <<tokens, resToken>>
    /\ UNCHANGED <<parseVars, partVars, azureVars, providers, projects, branches, body,
                   resProvider, scope, loopVars, failedRepo, runs, changes>>

(***************************************************************************)
(* getOrPostProviderWritesProblem, and the rest of InitWritesProblem       *)
(***************************************************************************)
\* InitWritesProblem after the provider is known: url.Parse and the client.
InitDone(provider) ==
    IF URLParses(provider.url)
    THEN pc' = "resolveScope" /\ UNCHANGED resp
    ELSE Fails("WriteInvalidParamError", "provider.url")

GetProviderByID ==
    /\ pc = "getProvider"
    /\ body.providerID # 0
    /\ calls' = Append(calls, Call("wharf", "GetProvider", EmptyString, body.providerID))
    /\ \E apiOK \in APIOutcomes :
        /\ CountAPI(apiOK)
        /\ IF apiOK /\ body.providerID \in 1..Len(providers)
           THEN /\ resProvider' = providers[body.providerID]
                /\ InitDone(providers[body.providerID])
           ELSE /\ Fails("WriteAPIClientReadError", "")
                /\ UNCHANGED resProvider
    /\ UNCHANGED <<parseVars, partVars, azureVars, wharfVars, body, resToken, scope,
                   loopVars, failedRepo, runs, changes>>

\* The loop as internal/importer/importer.go has it: if p.ProviderID ==
\* provider.ProviderID, where the ID asked for is 0 on this path.
FoundProviders_ByID(list, url) ==
    LET Test(p) == p.providerID = 0 IN SelectSeq(list, Test)

\* for _, p := range searchResults.List { if p.URL == providerData.URL ...
FoundProviders(list, url) ==
    LET Test(p) == p.url = url IN SelectSeq(list, Test)

SearchProvider ==
    /\ pc = "getProvider"
    /\ body.providerID = 0
    /\ calls' = Append(calls, Call("wharf", "GetProviderList", EmptyString, body.url))
    /\ \E apiOK \in APIOutcomes :
        /\ CountAPI(apiOK)
        /\ LET list == IF apiOK THEN GetProviderList(apiProviderName, body.url) ELSE <<>>
               found == FoundProviders(list, body.url)
           IN IF apiOK /\ found # <<>>
              THEN /\ resProvider' = Head(found)
                   /\ InitDone(Head(found))
              ELSE /\ pc' = "createProvider"
                   /\ UNCHANGED <<resProvider, resp>>
    /\ UNCHANGED <<parseVars, partVars, azureVars, wharfVars, body, resToken, scope,
                   loopVars, failedRepo, runs, changes>>

\* The provider created with the token ID of the request (0 without one).
ProviderTokenID_OfRequest(resolved) == body.tokenID

\* providerWithTokenID.TokenID = i.resToken.TokenID
ProviderTokenID(resolved) == resolved.tokenID

CreateProvider ==
    /\ pc = "createProvider"
    /\ calls' = Append(calls, Call("wharf", "CreateProvider", EmptyString, body.url))
    /\ \E apiOK \in APIOutcomes :
        /\ CountAPI(apiOK)
        /\ IF apiOK
           THEN LET created == [providerID |-> Len(providers) + 1,
                                name |-> apiProviderName, url |-> body.url,
                                tokenID |-> ProviderTokenID(resToken)]
                IN /\ providers' = Append(providers, created)
                   /\ resProvider' = created
                   /\ InitDone(created)
           ELSE /\ Fails("WriteAPIClientWriteError", "")
                /\ UNCHANGED <<providers, resProvider>>
    /\ UNCHANGED <<parseVars, partVars, azureVars, tokens, projects, branches, body,
                   resToken, scope, loopVars, failedRepo, runs, changes>>

(***************************************************************************)
(* runAzureDevOpsHandler: the scope and the switch on it                   *)
(***************************************************************************)
\* The switch with its last two cases the wrong way round.
ScopeEntry_Swapped(s) ==
    CASE s[2] = EmptyString -> "orgList"
      [] s[3] = EmptyString -> "repoGet"
      [] OTHER -> "projList"

\* switch { case azureProj == "": ... case azureRepo == "": ... default: ... }
ScopeEntry(s) ==
    CASE s[2] = EmptyString -> "orgList"
      [] s[3] = EmptyString -> "projList"
      [] OTHER -> "repoGet"

ResolveScope ==
    /\ pc = "resolveScope"
    /\ LET s == ParseRepoRefParams(body.groupName, body.projectName)
       IN /\ scope' = s
          /\ pc' = ScopeEntry(s)
          /\ projArg' = s[2]
    /\ UNCHANGED <<parseVars, partVars, azureVars, wharfVars, body, resp, idVars, projQueue,
                   repoQueue, repo, buildDef, repoBranches, branchQueue,
                   wharfProject, calls, listing, failedRepo, runs, changes, faults>>

\* c.Status(http.StatusCreated)
Succeeds ==
    /\ resp' = Append(resp, StatusWrite(StatusCreated))
    /\ pc' = "done"

(***************************************************************************)
(* ImportOrganizationWritesProblem                                         *)
(***************************************************************************)
GetProjects ==
    /\ pc = "orgList"
    /\ calls' = Append(calls, Call("azure", "GetProjects", EmptyString, scope[1]))
    /\ \E kind \in ExchangeOutcomes :
        /\ CountExchange(kind)
        /\ LET x == Exchange(kind, scope[1] = OrgName, azProjects)
               got == GetUnmarshalJSON(x)
           IN IF got[2] # NoError
              THEN /\ Fails("WriteProviderResponseError", "")
                   /\ UNCHANGED projQueue
              ELSE /\ projQueue' = got[1]
                   /\ pc' = "orgLoop"
                   /\ UNCHANGED resp
    /\ UNCHANGED <<parseVars, partVars, azureVars, wharfVars, body, idVars, scope, projArg,
                   repoQueue, repo, buildDef, repoBranches, branchQueue,
                   wharfProject, listing, failedRepo, runs, changes>>

\* for _, project := range projects { ok := i.ImportProjectWritesProblem(...
NextProject ==
    /\ pc = "orgLoop"
    /\ IF projQueue = <<>>
       THEN /\ Succeeds
            /\ UNCHANGED <<projQueue, projArg>>
       ELSE /\ projArg' = Head(projQueue).name
            /\ projQueue' = Tail(projQueue)
            /\ pc' = "projList"
            /\ UNCHANGED resp
    /\ UNCHANGED <<parseVars, partVars, azureVars, wharfVars, body, idVars, scope,
                   repoQueue, repo, buildDef, repoBranches, branchQueue,
                   wharfProject, calls, listing, failedRepo, runs, changes, faults>>

(***************************************************************************)
(* ImportProjectWritesProblem                                              *)
(***************************************************************************)
GetRepositories ==
    /\ pc = "projList"
    /\ calls' = Append(calls, Call("azure", "GetRepositories", EmptyString,
                                   <<scope[1], projArg>>))
    /\ \E kind \in ExchangeOutcomes :
        /\ CountExchange(kind)
        /\ LET x == Exchange(kind, ProjectKnown(scope[1], projArg),
                             IF ProjectKnown(scope[1], projArg)
                             THEN RepositoriesOf(projArg) ELSE NoPayload)
               got == GetUnmarshalJSON(x)
           IN IF got[2] # NoError
              THEN /\ Fails("WriteProviderResponseError", "")
                   /\ UNCHANGED <<repoQueue, listing>>
              ELSE /\ repoQueue' = got[1]
                   /\ listing' = listing \o got[1]
                   /\ pc' = "repoLoop"
                   /\ UNCHANGED resp
    /\ UNCHANGED <<parseVars, partVars, azureVars, wharfVars, body, idVars, scope, projQueue,
                   projArg, repo, buildDef, repoBranches, branchQueue,
                   wharfProject, failedRepo, runs, changes>>

\* for _, repo := range repos { ok := i.importKnownRepositoryWritesProblem(...
NextRepository ==
    /\ pc = "repoLoop"
    /\ IF repoQueue = <<>>
       THEN /\ IF scope[2] = EmptyString
               THEN pc' = "orgLoop" /\ UNCHANGED resp
               ELSE Succeeds
            /\ UNCHANGED <<repoQueue, repo>>
       ELSE /\ repo' = Head(repoQueue)
            /\ repoQueue' = Tail(repoQueue)
            /\ pc' = "getFile"
            /\ UNCHANGED resp
    /\ UNCHANGED <<parseVars, partVars, azureVars, wharfVars, body, idVars, scope, projQueue,
                   projArg, buildDef, repoBranches, branchQueue, wharfProject,
                   calls, listing, failedRepo, runs, changes, faults>>

(***************************************************************************)
(* ImportRepositoryWritesProblem                                           *)
(***************************************************************************)
GetRepository ==
    /\ pc = "repoGet"
    /\ calls' = Append(calls, Call("azure", "GetRepository", EmptyString,
                                   <<scope[1], scope[2], scope[3]>>))
    /\ \E kind \in ExchangeOutcomes :
        /\ CountExchange(kind)
        /\ LET x == Exchange(kind, RepoKnown(scope[1], scope[2], scope[3]),
                             IF RepoKnown(scope[1], scope[2], scope[3])
                             THEN RepositoryJSON(StaticRepo(scope[2], scope[3]))
                             ELSE NoPayload)
               got == GetUnmarshalJSON(x)
           IN IF got[2] # NoError
              THEN /\ Fails("WriteProviderResponseError", "")
                   /\ UNCHANGED repo
              ELSE /\ repo' = got[1]
                   /\ pc' = "getFile"
                   /\ UNCHANGED resp
    /\ UNCHANGED <<parseVars, partVars, azureVars, wharfVars, body, idVars, scope, projQueue,
                   projArg, repoQueue, buildDef, repoBranches, branchQueue,
                   wharfProject, listing, failedRepo, runs, changes>>

(***************************************************************************)
(* importKnownRepositoryWritesProblem: the two provider reads              *)
(***************************************************************************)
FileOf(repoID) ==
    AzureRepos[CHOOSE k \in 1..Len(AzureRepos) : AzureRepos[k].id = repoID].file

\* The project written straight after the build definition is fetched.
AfterBuildDefinition_Write == "searchProject"

\* importKnownRepositoryWritesProblem: after GetFileWritesProblem comes
\* GetRepositoryBranchesWritesProblem.
AfterBuildDefinition == "getBranches"

\* GetFileWritesProblem(orgName, repo.Project.Name, repo.Name, ".wharf-ci.yml")
GetFile ==
    /\ pc = "getFile"
    /\ calls' = Append(calls, Call("azure", "GetFile", repo.id,
                                   <<scope[1], repo.project.name, repo.name,
                                     buildDefinitionFileName>>))
    /\ \E kind \in ExchangeOutcomes :
        /\ CountExchange(kind)
        /\ LET x == Exchange(kind, FileOf(repo.id) # FileAbsent, FileOf(repo.id))
               got == GetAsString(x)
           IN IF IsFileNotFound(got[2])
              THEN /\ buildDef' = ""
                   /\ pc' = AfterBuildDefinition
                   /\ UNCHANGED <<resp, failedRepo>>
              ELSE IF got[2] # NoError
              THEN /\ FailsRepo("WriteFetchBuildDefinitionError", "")
                   /\ UNCHANGED buildDef
              ELSE /\ buildDef' = got[1]
                   /\ pc' = AfterBuildDefinition
                   /\ UNCHANGED <<resp, failedRepo>>
    /\ UNCHANGED <<parseVars, partVars, azureVars, wharfVars, body, idVars, scope, projQueue,
                   projArg, repoQueue, repo, repoBranches, branchQueue,
                   wharfProject, listing, runs, changes>>

\* projectBranches = append(projectBranches, Branch{Name: name, Ref: ref.Name})
RECURSIVE ToBranches(_)
ToBranches(refs) ==
    IF refs = <<>> THEN <<>>
    ELSE <<[name |-> TrimPrefix(Head(refs), refBranchesPrefix), ref |-> Head(refs)]>>
         \o ToBranches(Tail(refs))

GetRepositoryBranches ==
    /\ pc = "getBranches"
    /\ calls' = Append(calls, Call("azure", "GetRepositoryBranches", repo.id,
                                   <<scope[1], repo.project.name, repo.name>>))
    /\ \E kind \in ExchangeOutcomes :
        /\ CountExchange(kind)
        /\ LET x == Exchange(kind, TRUE, azRefs[repo.id])
               got == GetUnmarshalJSON(x)
           IN IF got[2] # NoError
              THEN /\ FailsRepo("WriteProviderResponseError", "")
                   /\ UNCHANGED repoBranches
              ELSE /\ repoBranches' = ToBranches(got[1])
                   /\ pc' = "searchProject"
                   /\ UNCHANGED <<resp, failedRepo>>
    /\ UNCHANGED <<parseVars, partVars, azureVars, wharfVars, body, idVars, scope, projQueue,
                   projArg, repoQueue, repo, buildDef, branchQueue, wharfProject,
                   listing, runs, changes>>

(***************************************************************************)
(* createOrUpdateWharfProject (through importRepositoryWritesProblem)      *)
(***************************************************************************)
\* groupName as it was before v2.0.0: the organization alone.
ProjectGroupName_OrgOnly(orgName, r) == orgName

\* groupName := fmt.Sprintf("%s/%s", orgName, repo.Project.Name)
ProjectGroupName(orgName, r) == SprintfSlash(orgName, r.project.name)

\* The search result ignored: a project is created every time.
TakesUpdatePath_Never(searchResults) == FALSE

TakesUpdatePath_ExactlyOne(searchResults) == Len(searchResults) = 1

\* if len(searchResults.List) > 0 {
TakesUpdatePath(searchResults) == Len(searchResults) > 0

SearchProject ==
    /\ pc = "searchProject"
    /\ LET groupName == ProjectGroupName(scope[1], repo)
       IN /\ calls' = Append(calls, Call("wharf", "GetProjectList", repo.id,
                                         <<repo.name, groupName, resProvider.providerID>>))
          /\ \E apiOK \in APIOutcomes :
              /\ CountAPI(apiOK)
              /\ LET searchResults ==
                         GetProjectList(repo.name, groupName, resProvider.providerID)
                 IN IF ~apiOK
                    THEN /\ FailsRepo("WriteAPIClientWriteError", "")
                         /\ UNCHANGED wharfProject
                    ELSE IF TakesUpdatePath(searchResults)
                    THEN /\ wharfProject' = Head(searchResults)   \* existingProject
                         /\ pc' = "updateProject"
                         /\ UNCHANGED <<resp, failedRepo>>
                    ELSE /\ pc' = "createProject"
                         /\ UNCHANGED <<resp, failedRepo, wharfProject>>
    /\ UNCHANGED <<parseVars, partVars, azureVars, wharfVars, body, idVars, scope, projQueue,
                   projArg, repoQueue, repo, buildDef, repoBranches, branchQueue,
                   listing, runs, changes>>

\* The update carrying the IDs the request came with, not those resolved.
ProjectUpdate_RequestIDs ==
    [name |-> repo.name, tokenID |-> body.tokenID,
     groupName |-> SprintfSlash(scope[1], repo.project.name), buildDefinition |-> buildDef,
     description |-> repo.project.description,
     providerID |-> body.providerID, gitURL |-> repo.sshURL]

\* request.ProjectUpdate of the repository in hand
ProjectUpdate ==
    [name |-> repo.name, tokenID |-> resToken.tokenID,
     groupName |-> ProjectGroupName(scope[1], repo), buildDefinition |-> buildDef,
     description |-> repo.project.description,
     providerID |-> resProvider.providerID, gitURL |-> repo.sshURL]

UpdateProject ==
    /\ pc = "updateProject"
    /\ calls' = Append(calls, Call("wharf", "UpdateProject", repo.id,
                                   [projectID |-> wharfProject.projectID,
                                    update |-> ProjectUpdate]))
    /\ \E apiOK \in APIOutcomes :
        /\ CountAPI(apiOK)
        /\ IF apiOK
           THEN LET u == ProjectUpdate
                    updated == [projects[wharfProject.projectID] EXCEPT
                                    !.name = u.name, !.tokenID = u.tokenID,
                                    !.groupName = u.groupName,
                                    !.buildDefinition = u.buildDefinition,
                                    !.description = u.description,
                                    !.providerID = u.providerID, !.gitURL = u.gitURL]
                IN /\ projects' = [projects EXCEPT ![wharfProject.projectID] = updated]
                   /\ wharfProject' = updated
                   /\ branchQueue' = repoBranches
                   /\ pc' = "branchLoop"
                   /\ UNCHANGED <<resp, failedRepo>>
           ELSE /\ FailsRepo("WriteAPIClientWriteError", "")
                /\ wharfProject' = NoProject
                /\ UNCHANGED <<projects, branchQueue>>
    /\ UNCHANGED <<parseVars, partVars, azureVars, tokens, providers, branches, body, idVars,
                   scope, projQueue, projArg, repoQueue, repo, buildDef,
                   repoBranches, listing, runs, changes>>

CreateProject ==
    /\ pc = "createProject"
    /\ LET created == [projectID |-> Len(projects) + 1, name |-> repo.name,
                       groupName |-> ProjectGroupName(scope[1], repo),
                       tokenID |-> resToken.tokenID, buildDefinition |-> buildDef,
                       description |-> repo.project.description,
                       providerID |-> resProvider.providerID, gitURL |-> repo.sshURL,
                       remoteProjectID |-> repo.project.id]
       IN /\ calls' = Append(calls, Call("wharf", "CreateProject", repo.id, created))
          /\ \E apiOK \in APIOutcomes :
              /\ CountAPI(apiOK)
              /\ IF apiOK
                 THEN /\ projects' = Append(projects, created)
                      /\ wharfProject' = created
                      /\ branchQueue' = repoBranches
                      /\ pc' = "branchLoop"
                      /\ UNCHANGED <<resp, failedRepo>>
                 ELSE /\ FailsRepo("WriteAPIClientWriteError", "")
                      /\ UNCHANGED <<projects, wharfProject, branchQueue>>
    /\ UNCHANGED <<parseVars, partVars, azureVars, tokens, providers, branches, body, idVars,
                   scope, projQueue, projArg, repoQueue, repo, buildDef,
                   repoBranches, listing, runs, changes>>

(***************************************************************************)
(* importBranchesWritesProblem                                             *)
(***************************************************************************)
\* The default found by comparing the branch name, not the ref.
WharfBranch_ByName(branch, defaultBranchRef) ==
    [name |-> branch.name, default |-> (branch.name = defaultBranchRef)]

\* request.Branch{Name: branch.Name, Default: branch.Ref == defaultBranchRef}
WharfBranch(branch, defaultBranchRef) ==
    [name |-> branch.name, default |-> (branch.ref = defaultBranchRef)]

\* for _, branch := range branches { i.wharf.CreateProjectBranch(...
ImportBranch ==
    /\ pc = "branchLoop"
    /\ IF branchQueue = <<>>
       THEN \* importKnownRepositoryWritesProblem returns true
            /\ IF scope[3] = EmptyString
               THEN pc' = "repoLoop" /\ UNCHANGED resp
               ELSE Succeeds
            /\ UNCHANGED <<branches, branchQueue, calls, failedRepo, faults>>
       ELSE LET wharfBranch == WharfBranch(Head(branchQueue), repo.defaultBranchRef)
            IN /\ calls' = Append(calls, Call("wharf", "CreateProjectBranch", repo.id,
                                              [projectID |-> wharfProject.projectID,
                                               branch |-> wharfBranch]))
               /\ \E apiOK \in APIOutcomes :
                   /\ CountAPI(apiOK)
                   /\ IF apiOK
                      THEN /\ branches' = WithProjectBranch(branches,
                                              wharfProject.projectID, wharfBranch)
                           /\ branchQueue' = Tail(branchQueue)
                           /\ pc' = "branchLoop"
                           /\ UNCHANGED <<resp, failedRepo>>
                      ELSE /\ FailsRepo("WriteAPIClientWriteError", "")
                           /\ UNCHANGED <<branches, branchQueue>>
    /\ UNCHANGED <<parseVars, partVars, azureVars, tokens, providers, projects, body, idVars,
                   scope, projQueue, projArg, repoQueue, repo, buildDef,
                   repoBranches, wharfProject, listing, runs, changes>>

(***************************************************************************)
(* Upstream: the branch listed last of repository r is deleted in Azure    *)
(* DevOps between two requests.                                            *)
(***************************************************************************)
RemoveLast(s) == SubSeq(s, 1, Len(s) - 1)

UpstreamBranchRemoved ==
    /\ pc \in {"idle", "done"}
    /\ changes < MaxUpstreamChanges
    /\ changes' = changes + 1
    /\ \E id \in {<<"7">>} :
        /\ azRefs[id] # <<>>
        /\ azRefs' = [azRefs EXCEPT ![id] = RemoveLast(azRefs[id])]
    /\ UNCHANGED <<parseVars, partVars, azProjects, wharfVars, reqVars, runs, faults>>

Next ==
    \/ ReceiveRequest
    \/ GetTokenByID
    \/ RejectEmptyToken
    \/ SearchToken
    \/ CreateToken
    \/ GetProviderByID
    \/ SearchProvider
    \/ CreateProvider
    \/ ResolveScope
    \/ GetProjects
    \/ NextProject
    \/ GetRepositories
    \/ NextRepository
    \/ GetRepository
    \/ GetFile
    \/ GetRepositoryBranches
    \/ SearchProject
    \/ UpdateProject
    \/ CreateProject
    \/ ImportBranch
    \/ UpstreamBranchRemoved

Spec == Init /\ [][Next]_vars


(***************************************************************************)
(* The same handler against a Wharf API that already holds records: the    *)
(* token and the provider of an earlier import, a project imported under   *)
(* the naming used before v2.0.0 (group "{org}", name "{Azure project}"),  *)
(* and two projects stored under one (name, group, provider).              *)
(***************************************************************************)
SeededToken == [tokenID |-> 1, token |-> "k", userName |-> "u", providerID |-> 0]

SeededProvider ==
    [providerID |-> 1, name |-> apiProviderName, url |-> GoodURL, tokenID |-> 1]

LegacyProject ==
    [NoProject EXCEPT !.projectID = 1, !.name = <<"P">>, !.groupName = OrgName,
                      !.tokenID = 1, !.providerID = 1, !.description = "about P"]

TwinProject(projectID) ==
    [NoProject EXCEPT !.projectID = projectID, !.name = <<"r">>,
                      !.groupName = SprintfSlash(OrgName, <<"P">>),
                      !.tokenID = 1, !.providerID = 1, !.description = "about P"]

InitSeeded ==
    /\ parseIn = <<EmptyString, EmptyString>>
    /\ parseOut = NoResult
    /\ InitParts
    /\ azProjects = <<AzureProjectP, AzureProjectQ>>
    /\ azRefs = AzureRefsInit
    /\ tokens = <<SeededToken>>
    /\ providers = <<SeededProvider>>
    /\ projects = <<LegacyProject, TwinProject(2), TwinProject(3)>>
    /\ branches = {}
    /\ pc = "idle"
    /\ body = NoBody
    /\ resp = <<>>
    /\ resToken = NoToken
    /\ resProvider = NoProvider
    /\ scope = NoResult
    /\ projQueue = <<>>
    /\ projArg = EmptyString
    /\ repoQueue = <<>>
    /\ repo = NoRepo
    /\ buildDef = ""
    /\ repoBranches = <<>>
    /\ branchQueue = <<>>
    /\ wharfProject = NoProject
    /\ calls = <<>>
    /\ listing = <<>>
    /\ failedRepo = EmptyString
    /\ runs = 0
    /\ changes = 0
    /\ faults = 0

SpecSeeded == InitSeeded /\ [][Next]_vars

(***************************************************************************)
(* The importer of the first API version (ImportProjectInGroupWritesProblem *)
(* and ImportAllProjectsInGroupWritesProblem), where an Azure DevOps        *)
(* project holds one repository that carries the project's name.  It is the *)
(* importer whose GetRepositoryWritesProblem compares the project IDs.      *)
(* A request starts on an importer InitWritesProblem has initialised.       *)
(***************************************************************************)
\* Repositories served to this importer, in listing order.
V1AzureRepos ==
    << [id |-> <<"5">>, name |-> <<"P">>, projectName |-> <<"P">>,
        defaultBranchRef |-> HeadRef(<<"m">>), sshURL |-> "", file |-> "stages-of-P"],
       [id |-> <<"6">>, name |-> <<"Q">>, projectName |-> <<"Q">>,
        defaultBranchRef |-> HeadRef(<<"m">>), sshURL |-> "", file |-> "stages-of-Q"],
       [id |-> <<"9">>, name |-> <<"t">>, projectName |-> <<"Q">>,
        defaultBranchRef |-> HeadRef(<<"x">>), sshURL |-> "", file |-> "stages-of-t"] >>

\* GET {group}/{project}/_apis/repositories/{project}/refs?filter=heads/
V1AzureRefs(projectName) ==
    IF projectName = <<"P">> THEN <<HeadRef(<<"m">>), HeadRef(<<"d">>)>>
    ELSE <<HeadRef(<<"m">>)>>

V1Token == [tokenID |-> 1, token |-> "k", userName |-> "u", providerID |-> 0]

V1Provider == [providerID |-> 1, name |-> apiProviderName, url |-> GoodURL, tokenID |-> 1]

\* <<group, project>> of the requests.
V1ScopeChoices ==
    { <<OrgName, EmptyString>>, <<OrgName, <<"P">>>>, <<OrgName, <<"Q">>>>,
      <<OrgName, <<"X">>>> }

InitV1 ==
    /\ parseIn = <<EmptyString, EmptyString>>
    /\ parseOut = NoResult
    /\ InitParts
    /\ azProjects = <<AzureProjectP, AzureProjectQ>>
    /\ azRefs = AzureRefsInit
    /\ tokens = <<V1Token>>
    /\ providers = <<V1Provider>>
    /\ projects = <<>>
    /\ branches = {}
    /\ pc = "v1Idle"
    /\ body = NoBody
    /\ resp = <<>>
    /\ resToken = V1Token
    /\ resProvider = V1Provider
    /\ scope = NoResult
    /\ projQueue = <<>>
    /\ projArg = NoAzureProject
    /\ repoQueue = <<>>
    /\ repo = NoRepo
    /\ buildDef = ""
    /\ repoBranches = <<>>
    /\ branchQueue = <<>>
    /\ wharfProject = NoProject
    /\ calls = <<>>
    /\ listing = <<>>
    /\ failedRepo = EmptyString
    /\ runs = 0
    /\ changes = 0
    /\ faults = 0

v1Fixed == <<parseVars, partVars, azRefs, tokens, providers, body, idVars, repoQueue,
             listing, failedRepo, runs>>

\* ImportProjectInGroupWritesProblem drops the result of
\* putProjectToWharfWithBranchesWritesProblem and returns true, so the handler
\* goes on to c.Status(201); ImportAllProjectsInGroupWritesProblem returns false.
V1StepFails(name) ==
    /\ resp' = IF scope[2] # EmptyString
               THEN resp \o <<Problem(name, ""), StatusWrite(StatusCreated)>>
               ELSE Append(resp, Problem(name, ""))
    /\ pc' = "done"

\* runAzureDevOpsHandler of that version, from the choice of the import on.
V1ReceiveRequest ==
    /\ pc \in {"v1Idle", "done"}
    /\ runs < MaxRuns
    /\ runs' = runs + 1
    /\ \E s \in V1ScopeChoices :
        /\ body' = [NoBody EXCEPT !.tokenID = 1, !.providerID = 1, !.url = GoodURL,
                                  !.groupName = s[1], !.projectName = s[2]]
        /\ scope' = <<s[1], s[2], EmptyString>>
        /\ pc' = IF s[2] # EmptyString THEN "v1GetProject" ELSE "v1GetProjects"
    /\ resp' = <<>>
    /\ projQueue' = <<>>
    /\ projArg' = NoAzureProject
    /\ repo' = NoRepo
    /\ buildDef' = ""
    /\ repoBranches' = <<>>
    /\ branchQueue' = <<>>
    /\ wharfProject' = NoProject
    /\ calls' = <<>>
    /\ UNCHANGED <<parseVars, partVars, azureVars, wharfVars, idVars, repoQueue, listing,
                   failedRepo, changes, faults>>

\* azure.GetProjectWritesProblem(groupName, projectName)
V1GetProject ==
    /\ pc = "v1GetProject"
    /\ calls' = Append(calls, Call("azure", "GetProject", EmptyString,
                                   <<scope[1], scope[2]>>))
    /\ \E kind \in ExchangeOutcomes :
        /\ CountExchange(kind)
        /\ LET found == ProjectKnown(scope[1], scope[2])
               x == Exchange(kind, found,
                             IF found THEN ProjectNamed(scope[2]) ELSE NoPayload)
               got == GetUnmarshalJSON(x)
           IN IF got[2] # NoError
              THEN /\ Fails("WriteProviderResponseError", "")
                   /\ UNCHANGED projArg
              ELSE /\ projArg' = got[1]
                   /\ pc' = "v1GetFile"
                   /\ UNCHANGED resp
    /\ UNCHANGED <<v1Fixed, azProjects, projects, branches, scope, projQueue, repo,
                   buildDef, repoBranches, branchQueue, wharfProject, changes>>

\* azure.GetProjectsWritesProblem(groupName)
V1GetProjects ==
    /\ pc = "v1GetProjects"
    /\ calls' = Append(calls, Call("azure", "GetProjects", EmptyString, <<scope[1]>>))
    /\ \E kind \in ExchangeOutcomes :
        /\ CountExchange(kind)
        /\ LET x == Exchange(kind, scope[1] = OrgName, azProjects)
               got == GetUnmarshalJSON(x)
           IN IF got[2] # NoError
              THEN /\ Fails("WriteProviderResponseError", "")
                   /\ UNCHANGED projQueue
              ELSE /\ projQueue' = got[1]
                   /\ pc' = "v1ProjectLoop"
                   /\ UNCHANGED resp
    /\ UNCHANGED <<v1Fixed, azProjects, projects, branches, scope, projArg, repo,
                   buildDef, repoBranches, branchQueue, wharfProject, changes>>

\* for _, project := range projects
V1NextProject ==
    /\ pc = "v1ProjectLoop"
    /\ IF projQueue = <<>>
       THEN Succeeds /\ UNCHANGED <<projQueue, projArg>>
       ELSE /\ projArg' = Head(projQueue)
            /\ projQueue' = Tail(projQueue)
            /\ pc' = "v1GetFile"
            /\ UNCHANGED resp
    /\ UNCHANGED <<v1Fixed, azProjects, projects, branches, scope, repo, buildDef,
                   repoBranches, branchQueue, wharfProject, calls, changes, faults>>

V1RepoNamed(name) ==
    V1AzureRepos[CHOOSE k \in 1..Len(V1AzureRepos) : V1AzureRepos[k].name = name]

\* putProjectToWharfWritesProblem: azure.GetFileWritesProblem
V1GetFile ==
    /\ pc = "v1GetFile"
    /\ calls' = Append(calls, Call("azure", "GetFile", EmptyString,
                                   <<scope[1], projArg.name, buildDefinitionFileName>>))
    /\ \E kind \in ExchangeOutcomes :
        /\ CountExchange(kind)
        /\ LET x == Exchange(kind, TRUE, V1RepoNamed(projArg.name).file)
               got == GetAsString(x)
           IN IF got[2] # NoError
              THEN /\ V1StepFails("WriteFetchBuildDefinitionError")
                   /\ UNCHANGED buildDef
              ELSE /\ buildDef' = got[1]
                   /\ pc' = "v1PutProject"
                   /\ UNCHANGED resp
    /\ UNCHANGED <<v1Fixed, azProjects, projects, branches, scope, projQueue,
                   projArg, repo, repoBranches, branchQueue, wharfProject, changes>>

\* constructGitURL
V1GitURL(groupName, projectName) ==
    <<"git@", "dev.azure.com", ":", 22, "/", groupName, "/", projectName,
      "/_git/", projectName>>

\* PUT /project: the project of that name and group is replaced, or added.
V1PutProjectResult(p) ==
    LET same == {k \in 1..Len(projects) :
                     projects[k].name = p.name /\ projects[k].groupName = p.groupName}
    IN IF same = {}
       THEN [p EXCEPT !.projectID = Len(projects) + 1]
       ELSE [p EXCEPT !.projectID = projects[CHOOSE k \in same : TRUE].projectID]

\* putProjectToWharfWritesProblem: wharf.PutProject
V1PutProject ==
    /\ pc = "v1PutProject"
    /\ LET put == [NoProject EXCEPT !.name = projArg.name,
                                    !.tokenID = resToken.tokenID,
                                    !.groupName = scope[1],
                                    !.buildDefinition = buildDef,
                                    !.description = projArg.description,
                                    !.providerID = resProvider.providerID,
                                    !.gitURL = V1GitURL(scope[1], projArg.name)]
           projectInDB == V1PutProjectResult(put)
       IN /\ calls' = Append(calls, Call("wharf", "PutProject", EmptyString, put))
          /\ \E apiOK \in APIOutcomes :
              /\ CountAPI(apiOK)
              /\ IF apiOK
                 THEN /\ projects' =
                             IF projectInDB.projectID > Len(projects)
                             THEN Append(projects, projectInDB)
                             ELSE [projects EXCEPT ![projectInDB.projectID] = projectInDB]
                      /\ wharfProject' = projectInDB
                      /\ pc' = "v1GetRepository"
                      /\ UNCHANGED resp
                 ELSE /\ V1StepFails("WriteAPIClientWriteError")
                      /\ UNCHANGED <<projects, wharfProject>>
    /\ UNCHANGED <<v1Fixed, azProjects, branches, scope, projQueue, projArg, repo,
                   buildDef, repoBranches, branchQueue, changes>>

\* postBranchesToWharfWritesProblem: azure.GetRepositoryWritesProblem(groupName,
\* project), with its two checks on the listing of the project's repositories.
V1GetRepository ==
    /\ pc = "v1GetRepository"
    /\ calls' = Append(calls, Call("azure", "GetRepositoryOfProject", EmptyString,
                                   <<scope[1], projArg.name>>))
    /\ \E kind \in ExchangeOutcomes :
        /\ CountExchange(kind)
        /\ LET known == \E k \in 1..Len(azProjects) : azProjects[k].name = projArg.name
               x == Exchange(kind, known,
                             IF known THEN SelectRepos(V1AzureRepos, projArg.name)
                             ELSE NoPayload)
               got == GetUnmarshalJSON(x)
           IN IF got[2] # NoError
              THEN /\ V1StepFails("WriteProviderResponseError")
                   /\ UNCHANGED repo
              ELSE IF Len(got[1]) # 1
              THEN /\ V1StepFails("WriteAPIClientReadError")
                   /\ UNCHANGED repo
              ELSE IF got[1][1].project.id # projArg.id
              THEN /\ V1StepFails("WriteAPIClientReadError")
                   /\ UNCHANGED repo
              ELSE /\ repo' = got[1][1]
                   /\ pc' = "v1GetBranches"
                   /\ UNCHANGED resp
    /\ UNCHANGED <<v1Fixed, azProjects, projects, branches, scope, projQueue,
                   projArg, buildDef, repoBranches, branchQueue, wharfProject, changes>>

\* postBranchesToWharfWritesProblem: azure.GetProjectBranchesWritesProblem
V1GetProjectBranches ==
    /\ pc = "v1GetBranches"
    /\ calls' = Append(calls, Call("azure", "GetProjectBranches", EmptyString,
                                   <<scope[1], projArg.name, refBranchesFilter>>))
    /\ \E kind \in ExchangeOutcomes :
        /\ CountExchange(kind)
        /\ LET x == Exchange(kind, TRUE, V1AzureRefs(projArg.name))
               got == GetUnmarshalJSON(x)
           IN IF got[2] # NoError
              THEN /\ V1StepFails("WriteProviderResponseError")
                   /\ UNCHANGED <<repoBranches, branchQueue>>
              ELSE /\ repoBranches' = ToBranches(got[1])
                   /\ branchQueue' = ToBranches(got[1])
                   /\ pc' = "v1BranchLoop"
                   /\ UNCHANGED resp
    /\ UNCHANGED <<v1Fixed, azProjects, projects, branches, scope, projQueue,
                   projArg, repo, buildDef, wharfProject, changes>>

\* postBranchesToWharfWritesProblem: wharf.PutBranch for each branch
V1PutBranch ==
    /\ pc = "v1BranchLoop"
    /\ IF branchQueue = <<>>
       THEN /\ IF scope[2] = EmptyString
               THEN pc' = "v1ProjectLoop" /\ UNCHANGED resp
               ELSE Succeeds
            /\ UNCHANGED <<branches, branchQueue, calls, faults>>
       ELSE LET wharfBranch == WharfBranch(Head(branchQueue), repo.defaultBranchRef)
            IN /\ calls' = Append(calls, Call("wharf", "PutBranch", EmptyString,
                                              [projectID |-> wharfProject.projectID,
                                               branch |-> wharfBranch]))
               /\ \E apiOK \in APIOutcomes :
                   /\ CountAPI(apiOK)
                   /\ IF apiOK
                      THEN /\ branches' = WithProjectBranch(branches,
                                              wharfProject.projectID, wharfBranch)
                           /\ branchQueue' = Tail(branchQueue)
                           /\ pc' = "v1BranchLoop"
                           /\ UNCHANGED resp
                      ELSE /\ V1StepFails("WriteAPIClientWriteError")
                           /\ UNCHANGED <<branches, branchQueue>>
    /\ UNCHANGED <<v1Fixed, azProjects, projects, scope, projQueue, projArg, repo,
                   buildDef, repoBranches, wharfProject, changes>>

\* Upstream: an Azure DevOps project is deleted and created again under its
\* name, which gives it a new ID; this can happen while a request is served.
RecreatedID(id) == IF id = <<"1">> THEN <<"3">> ELSE <<"4">>

UpstreamProjectRecreated ==
    /\ changes < MaxUpstreamChanges
    /\ changes' = changes + 1
    /\ \E k \in 1..Len(azProjects) :
        azProjects' = [azProjects EXCEPT ![k].id = RecreatedID(azProjects[k].id)]
    /\ UNCHANGED <<parseVars, partVars, azRefs, wharfVars, reqVars, runs, faults>>

NextV1 ==
    \/ V1ReceiveRequest
    \/ V1GetProject
    \/ V1GetProjects
    \/ V1NextProject
    \/ V1GetFile
    \/ V1PutProject
    \/ V1GetRepository
    \/ V1GetProjectBranches
    \/ V1PutBranch
    \/ UpstreamProjectRecreated

SpecV1 == InitV1 /\ [][NextV1]_vars

\* The request has ended in GetRepositoryWritesProblem on one repository
\* listed whose project.ID is not the ID of the project that is imported.
V1FailedOnMismatch ==
    /\ pc = "done"
    /\ calls # <<>>
    /\ calls[Len(calls)].op = "GetRepositoryOfProject"
    /\ \E k \in 1..Len(resp) :
           resp[k].kind = "problem" /\ resp[k].name = "WriteAPIClientReadError"
    /\ Len(SelectRepos(V1AzureRepos, projArg.name)) = 1

RepoByID(id) == AzureRepos[CHOOSE k \in 1..Len(AzureRepos) : AzureRepos[k].id = id]

ProjectWrites == CallsOf("CreateProject") \cup CallsOf("UpdateProject")

\* The project a project-write call asks the Wharf API to store.
WrittenProject(k) ==
    IF calls[k].op = "CreateProject" THEN calls[k].arg ELSE calls[k].arg.update

SameKey(p, q) ==
    /\ p.name = q.name
    /\ p.groupName = q.groupName
    /\ p.providerID = q.providerID

\* C1: a repository that already has its project (same name, group
\* "{org}/{remote project name}" and provider) is found by the search and is
\* updated, never created again: no create call is pending while a matching
\* project exists, and no two projects share (name, groupName, providerID).
C1_ReimportUpdates ==
    /\ \A k \in CallsOf("GetProjectList") :
           calls[k].arg = <<RepoByID(calls[k].repo).name,
                            SprintfSlash(scope[1], RepoByID(calls[k].repo).projectName),
                            resProvider.providerID>>
    /\ pc = "createProject" =>
           GetProjectList(repo.name, ProjectGroupName(scope[1], repo),
                          resProvider.providerID) = <<>>
    /\ \A a, b \in 1..Len(projects) :
           SameKey(projects[a], projects[b]) => a = b

C1_Witness ==
    /\ runs = 2
    /\ pc = "done"
    /\ CreatedWritten
    /\ scope = <<OrgName, <<"P">>, <<"r">>>>
    /\ CallsOf("UpdateProject") # {}
    /\ CallsOf("CreateProject") = {}
    /\ Len(GetProjectList(<<"r">>, SprintfSlash(OrgName, <<"P">>),
                          resProvider.providerID)) = 1

BranchNamesOf(projectID) == {b.name : b \in {x \in branches : x.projectID = projectID}}

\* C2 (as stated): after a repository import the branches stored for its project
\* are exactly the branches the provider listed for it in that import.
C2_BranchesReplacedWholesale ==
    (pc = "done" /\ CreatedWritten /\ wharfProject # NoProject)
        => BranchNamesOf(wharfProject.projectID)
               = {repoBranches[k].name : k \in 1..Len(repoBranches)}

ListingPos(id) == CHOOSE k \in 1..Len(listing) : listing[k].id = id

RepoCalls == {k \in 1..Len(calls) : calls[k].repo # EmptyString}

\* C3: in a project-scope or organization-scope import the repositories are
\* imported one at a time in listing order; when the import of one fails the
\* request has ended with a problem and without the 201, its last call is the
\* failed one (nothing is called for a later repository), and every project and
\* branch written for the repositories before it is still stored as written.
C3_AbortOnFirstFailure ==
    /\ \A a, b \in RepoCalls :
           (scope # NoResult /\ scope[3] = EmptyString /\ a <= b)
               => ListingPos(calls[a].repo) <= ListingPos(calls[b].repo)
    /\ (failedRepo # EmptyString /\ scope[3] = EmptyString) =>
           /\ pc = "done"
           /\ ProblemWritten /\ ~CreatedWritten
           /\ calls[Len(calls)].repo = failedRepo
           /\ \A k \in RepoCalls :
                  ListingPos(calls[k].repo) <= ListingPos(failedRepo)
           /\ \A k \in ProjectWrites :
                  calls[k].repo # failedRepo =>
                      \E p \in SeqToSet(projects) :
                          /\ SameKey(p, WrittenProject(k))
                          /\ p.buildDefinition = WrittenProject(k).buildDefinition
                          /\ p.gitURL = WrittenProject(k).gitURL
           /\ \A k \in CallsOf("CreateProjectBranch") :
                  calls[k].repo # failedRepo =>
                      [projectID |-> calls[k].arg.projectID,
                       name |-> calls[k].arg.branch.name,
                       default |-> calls[k].arg.branch.default] \in branches

C3_Witness ==
    /\ failedRepo = <<"8">>
    /\ scope = <<OrgName, <<"P">>, EmptyString>>
    /\ pc = "done"
    /\ \E p \in SeqToSet(projects) : p.name = <<"r">>
    /\ \E b \in branches : b.name = <<"d">>

\* C5: a 404 on .wharf-ci.yml is no failure: the import goes on with an empty
\* build definition and nothing is written to the response, and the project of
\* a repository without that file is written with an empty build definition;
\* every other failure of that fetch ends the request with a problem and
\* without a project write.
C5_FileStep ==
    pc = "getFile" =>
        /\ (faults' = faults /\ FileOf(repo.id) = FileAbsent) =>
               (pc' = "getBranches" /\ buildDef' = "" /\ resp' = resp)
        /\ (faults' = faults /\ FileOf(repo.id) # FileAbsent) =>
               (pc' = "getBranches" /\ buildDef' = FileOf(repo.id) /\ resp' = resp)
        /\ faults' > faults =>
               /\ pc' = "done"
               /\ Len(resp') = Len(resp) + 1
               /\ resp'[Len(resp')].name = "WriteFetchBuildDefinitionError"
               /\ projects' = projects

C5_WrittenEmpty ==
    \A k \in ProjectWrites :
        FileOf(calls[k].repo) = FileAbsent => WrittenProject(k).buildDefinition = ""

IsProjectScopeRequest ==
    /\ body.groupName # EmptyString
    /\ ~Contains(body.groupName, "/")
    /\ body.projectName # EmptyString

\* What C9 says of a finished project-scope import, for a given group name of
\* the projects written.
ProjectScopeImport(GroupOf(_)) ==
    (pc = "done" /\ CreatedWritten /\ IsProjectScopeRequest) =>
        /\ CallsOf("GetProjects") = {} /\ CallsOf("GetRepository") = {}
        /\ \E k \in CallsOf("GetRepositories") :
               /\ CallsOf("GetRepositories") = {k}
               /\ calls[k].arg = <<body.groupName, body.projectName>>
        /\ listing # <<>>
        /\ \A n \in 1..Len(listing) :
               /\ \E k \in ProjectWrites :
                      /\ WrittenProject(k).name = listing[n].name
                      /\ WrittenProject(k).groupName = GroupOf(listing[n])
               /\ \E p \in SeqToSet(projects) :
                      /\ p.name = listing[n].name
                      /\ p.groupName = GroupOf(listing[n])
        /\ \A k \in ProjectWrites :
               \E n \in 1..Len(listing) :
                   /\ WrittenProject(k).name = listing[n].name
                   /\ WrittenProject(k).groupName = GroupOf(listing[n])

\* C9 (as stated): a project-scope request (group without '/', project
\* non-empty) asks the provider for the repositories of that project and writes
\* every repository returned as a project named after the repository in the
\* group "{group}/{project}" of the request.
C9_GroupFromRequest ==
    LET GroupOf(r) == SprintfSlash(body.groupName, body.projectName)
    IN ProjectScopeImport(GroupOf)

\* C9 (amended): ... in the group "{group}/{name of the provider project the
\* repository belongs to}", which is "{group}/{project}" of the request when
\* the request names the project by its name.
C9_GroupFromProvider ==
    LET GroupOf(r) == SprintfSlash(body.groupName, r.project.name)
    IN /\ ProjectScopeImport(GroupOf)
       /\ (pc = "done" /\ CreatedWritten /\ IsProjectScopeRequest
              /\ body.projectName = <<"P">>)
             => \A k \in ProjectWrites :
                    WrittenProject(k).groupName
                        = SprintfSlash(body.groupName, body.projectName)

C9_Witness ==
    /\ pc = "done"
    /\ CreatedWritten
    /\ body.groupName = OrgName /\ body.projectName = <<"1">>
    /\ Len(listing) = 2
    /\ \E p \in SeqToSet(projects) :
           p.name = <<"s">> /\ p.groupName = SprintfSlash(OrgName, <<"P">>)

\* C10: the request {group "O/P", project "r"} is a repository-scope import:
\* one repository is fetched from the provider, nothing is listed, and when it
\* succeeds exactly one project has been written, in group "O/P" with name "r".
C10_RepositoryScope ==
    (body.groupName = SprintfSlash(OrgName, <<"P">>) /\ body.projectName = <<"r">>) =>
        /\ CallsOf("GetProjects") = {} /\ CallsOf("GetRepositories") = {}
        /\ Cardinality(CallsOf("GetRepository")) <= 1
        /\ \A k \in CallsOf("GetRepository") :
               calls[k].arg = <<OrgName, <<"P">>, <<"r">>>>
        /\ Cardinality(ProjectWrites) <= 1
        /\ (pc = "done" /\ CreatedWritten) =>
               /\ Cardinality(CallsOf("GetRepository")) = 1
               /\ \E k \in ProjectWrites :
                      /\ ProjectWrites = {k}
                      /\ WrittenProject(k).groupName = SprintfSlash(OrgName, <<"P">>)
                      /\ WrittenProject(k).name = <<"r">>
                      /\ \E p \in SeqToSet(projects) :
                             /\ SameKey(p, WrittenProject(k))
                             /\ p.groupName = SprintfSlash(OrgName, <<"P">>)
                             /\ p.name = <<"r">>

C10_Witness ==
    /\ pc = "done"
    /\ CreatedWritten
    /\ body.groupName = SprintfSlash(OrgName, <<"P">>) /\ body.projectName = <<"r">>
    /\ Cardinality(CallsOf("GetRepository")) = 1
    /\ Cardinality(ProjectWrites) = 1

LastCallIs(op) == calls # <<>> /\ calls[Len(calls)].op = op

\* C11 (as stated): requests that carry the same (user, token) pair and the
\* same provider URL reuse the token and the provider of the first: no two token
\* records hold the same (user name, secret) and no two provider records the
\* same (name, URL).
C11_IdentityReused ==
    /\ \A a, b \in 1..Len(tokens) :
           (tokens[a].userName = tokens[b].userName /\ tokens[a].token = tokens[b].token)
               => a = b
    /\ \A a, b \in 1..Len(providers) :
           (providers[a].name = providers[b].name /\ providers[a].url = providers[b].url)
               => a = b

\* C12 (as stated): while the Wharf API holds a project under the old naming
\* (group "{org}", name "{Azure project}") for the provider of the request, the
\* import of a repository of that Azure project does not create a project (it
\* updates and renames the old one).
C12_LegacyProjectRenamed ==
    pc = "createProject" =>
        ~\E p \in SeqToSet(projects) :
             /\ p.groupName = scope[1]
             /\ p.name = repo.project.name
             /\ p.providerID = resProvider.providerID

\* C13 (as stated): a request that has ended without the 201, one of the
\* importer's operations having returned false, has a problem written to it.
C13_FailureWritesProblem ==
    (pc = "done" /\ runs > 0 /\ ~CreatedWritten) => ProblemWritten

C15_TokenResolvedBySecret ==
    /\ (pc = "getProvider" /\ LastCallIs("GetTokenList")) =>
           /\ resToken \in SeqToSet(tokens)
           /\ resToken.userName = body.userName
           /\ resToken.token = body.token
    /\ ~(pc = "done" /\ LastCallIs("GetTokenList"))
    /\ (pc = "getProvider" /\ LastCallIs("CreateToken")) =>
           /\ resToken = tokens[Len(tokens)]
           /\ resToken.userName = body.userName
           /\ resToken.token = body.token

ProvidersAt(url) ==
    {k \in 1..Len(providers) :
         providers[k].name = apiProviderName /\ providers[k].url = url}

\* C16: without a provider ID, a search that is answered resolves the provider
\* to a stored "azuredevops" provider whose URL equals the requested URL when
\* there is one, and creates none; when there is none (other providers may be
\* stored) a provider with the requested URL is created and is the one resolved.
C16_ProviderStep ==
    /\ (pc = "getProvider" /\ body.providerID = 0 /\ faults' = faults) =>
           IF ProvidersAt(body.url) # {}
           THEN /\ \E k \in ProvidersAt(body.url) : resProvider' = providers[k]
                /\ providers' = providers
                /\ pc' = "resolveScope"
                /\ resp' = resp
           ELSE pc' = "createProvider" /\ providers' = providers
    /\ (pc = "createProvider" /\ faults' = faults) =>
           /\ Len(providers') = Len(providers) + 1
           /\ resProvider' = providers'[Len(providers')]
           /\ resProvider'.url = body.url
           /\ resProvider'.name = apiProviderName
           /\ pc' = "resolveScope"
           /\ resp' = resp

SearchOfRepoInHand ==
    GetProjectList(repo.name, SprintfSlash(scope[1], repo.project.name),
                   resProvider.providerID)

\* C17 (as stated): the project is updated when the search returns exactly one
\* project, and created when it returns none or more than one.
C17_UpdatesOnlySingleMatch ==
    /\ pc = "updateProject" => Len(SearchOfRepoInHand) = 1
    /\ pc = "createProject" => Len(SearchOfRepoInHand) # 1

\* C17 (amended): the project is updated, in place and under its ID, when the
\* search returns one or more projects (the first returned is the one updated),
\* and created only when the search returns none.
C17_UpdatesFirstMatch ==
    /\ pc = "updateProject" =>
           /\ SearchOfRepoInHand # <<>>
           /\ wharfProject = Head(SearchOfRepoInHand)
    /\ pc = "createProject" => SearchOfRepoInHand = <<>>
    /\ \A k \in CallsOf("UpdateProject") :
           LET u == calls[k].arg.update
           IN /\ calls[k].arg.projectID
                    = Head(GetProjectList(u.name, u.groupName, u.providerID)).projectID
              /\ (pc = "branchLoop" /\ k = Len(calls)) =>
                     SameKey(projects[calls[k].arg.projectID], u)
    /\ \A n \in 1..Len(projects) : projects[n].projectID = n

C17_Witness ==
    /\ pc = "branchLoop"
    /\ LastCallIs("UpdateProject")
    /\ calls[Len(calls)].arg.projectID = 2
    /\ Len(SearchOfRepoInHand) = 2
    /\ Len(projects) = 3

HalfCredential ==
    /\ runs > 0
    /\ body.groupName # EmptyString
    /\ body.tokenID = 0
    /\ (body.userName = "") # (body.token = "")

NoCredential ==
    /\ runs > 0
    /\ body.groupName # EmptyString
    /\ body.tokenID = 0
    /\ body.userName = "" /\ body.token = ""

RejectedForToken ==
    /\ calls = <<>>
    /\ pc = "done" => resp = <<Problem("WriteInvalidParamError", "token")>>
    /\ pc \in {"getToken", "done"}

\* C18 (as stated): without a token ID, a request whose user name or secret is
\* empty is rejected with a validation problem before any call is made.
C18_BothRequired == (HalfCredential \/ NoCredential) => RejectedForToken

\* C18 (amended): without a token ID, a request is rejected with a validation
\* problem, before any call is made, only when its user name and its secret are
\* both empty; when exactly one of them is empty the resolution goes on to the
\* token search, and no validation problem is written for the token.
C18_OnlyBothEmptyRejected ==
    /\ NoCredential => RejectedForToken
    /\ (HalfCredential /\ pc # "getToken") =>
           /\ calls # <<>>
           /\ calls[1].op = "GetTokenList"
           /\ \A k \in 1..Len(resp) : resp[k].name # "WriteInvalidParamError"

C18_Witness ==
    /\ HalfCredential
    /\ body.userName = "" /\ body.token = "k"
    /\ pc = "getProvider"
    /\ calls[1].op = "GetTokenList"
    /\ LastCallIs("CreateToken")
    /\ resToken.userName = "" /\ resToken.token = "k"

\* C19: a request with an empty group has ended with one problem, the 400 for
\* the field group, and has made no call to the Wharf API or to the provider.
C19_EmptyGroupRejected ==
    (runs > 0 /\ body.groupName = EmptyString) =>
        /\ pc = "done"
        /\ resp = <<Problem("WriteInvalidParamError", "group")>>
        /\ resp[1].status = StatusBadRequest
        /\ calls = <<>>

C19_Witness ==
    /\ runs = 2
    /\ body.groupName = EmptyString
    /\ pc = "done"
    /\ tokens # <<>>
    /\ projects # <<>>

\* C20 (as stated): a token search or a provider search that returns an error
\* ends the request with a problem; no create call follows.
C20_SearchErrorStep ==
    (/\ \/ pc = "getToken" /\ body.tokenID = 0
        \/ pc = "getProvider" /\ body.providerID = 0
     /\ faults' > faults)
        => /\ pc' = "done"
           /\ Len(resp') = Len(resp) + 1
           /\ resp'[Len(resp')].kind = "problem"

C20_ReadErrorTerminates == [][C20_SearchErrorStep]_vars

(***************************************************************************)
(* Specification of the naming translator alone: the arguments are drawn   *)
(* from every group name up to MaxGroupLen and every project name up to    *)
(* MaxProjectLen, and one step applies it.                                 *)
(***************************************************************************)
InitParse ==
    /\ parseIn \in GroupStrings \X ProjectStrings
    /\ parseOut = NoResult
    /\ InitImport
    /\ InitParts

ParseStep ==
    /\ parseOut = NoResult
    /\ parseOut' = ParseRepoRefParams(parseIn[1], parseIn[2])
    /\ UNCHANGED <<parseIn, partVars, azureVars, wharfVars, reqVars, envVars>>

NextParse == ParseStep

SpecParse == InitParse /\ [][NextParse]_vars

\* Text before / after the first '/' of a string that contains one.
BeforeFirstSlash(s) == SubSeq(s, 1, IndexRune(s, "/"))
AfterFirstSlash(s) == SubSeq(s, IndexRune(s, "/") + 2, Len(s))
Remainder(s) == IF Contains(s, "/") THEN AfterFirstSlash(s) ELSE EmptyString

\* C6: for every non-empty groupName without '/' and every projectName the
\* result is (groupName, projectName, ""): legacy form, repository unset.
C6_LegacyTwoLevel ==
    (parseOut # NoResult /\ parseIn[1] # EmptyString /\ ~Contains(parseIn[1], "/"))
        => parseOut = <<parseIn[1], parseIn[2], EmptyString>>

C6_Witness ==
    /\ parseOut # NoResult
    /\ parseIn = <<(<<"a", "b">>), (<<"b">>)>>
    /\ parseOut = <<(<<"a", "b">>), (<<"b">>), EmptyString>>

\* C7: when the part of groupName after its first '/' is non-empty, the result
\* is (text before the first '/', everything after the first '/', projectName).
C7_ThreeLevelFirstSlash ==
    (parseOut # NoResult /\ Remainder(parseIn[1]) # EmptyString)
        => parseOut = <<BeforeFirstSlash(parseIn[1]), AfterFirstSlash(parseIn[1]), parseIn[2]>>

C7_Witness ==
    /\ parseIn = <<(<<"a", "/", "b", "/", "a">>), (<<"b">>)>>
    /\ parseOut = <<(<<"a">>), (<<"b", "/", "a">>), (<<"b">>)>>

\* C8 (as stated): whenever the remainder after the first '/' is empty, the
\* organization returned is the original groupName unchanged.
C8_OrgIsWholeGroup ==
    (parseOut # NoResult /\ Remainder(parseIn[1]) = EmptyString)
        => parseOut = <<parseIn[1], parseIn[2], EmptyString>>

\* C8 (amended): whenever the remainder after the first '/' is empty, the
\* organization returned is the text before the first '/' (the whole groupName
\* only when it holds no '/'), the project is projectName and the repository "".
C8_OrgIsTextBeforeSlash ==
    (parseOut # NoResult /\ Remainder(parseIn[1]) = EmptyString)
        => parseOut = <<(IF Contains(parseIn[1], "/")
                         THEN BeforeFirstSlash(parseIn[1])
                         ELSE parseIn[1]),
                        parseIn[2], EmptyString>>

C8_Witness ==
    /\ parseIn = <<(<<"a", "/">>), (<<"b">>)>>
    /\ parseOut = <<(<<"a">>), (<<"b">>), EmptyString>>

(***************************************************************************)
(* pkg/requests on its own: getBodyFromRequest as the three versions of    *)
(* requests.go have it, each applied to one HTTP exchange.                  *)
(***************************************************************************)
StatusOK == 200

\* The statuses the provider is made to answer with.
Statuses == {100, 199, 200, 201, 204, 299, 300, 301, 304, 400, 401, 404, 500, 503}

\* http.DefaultClient.Do returned an error, or a response of some status whose
\* body ioutil.ReadAll can or cannot read to its end.
Exchanges ==
    {NoExchange} \cup
    {[transport |-> TRUE, status |-> st, readable |-> rd, payload |-> <<"body">>] :
         st \in Statuses, rd \in BOOLEAN}

\* fmt.Errorf("unable to get: ...")
ErrorfError == [kind |-> "errorString", statusCode |-> 0]

\* the error of ioutil.ReadAll
ReadError == [kind |-> "read", statusCode |-> 0]

\* The first version: if resp.StatusCode != http.StatusOK { return []byte{}, err }
\* where err is the error of the Do that succeeded, that is nil.
getBodyFromRequest_part_001(x) ==
    IF ~x.transport THEN <<NoPayload, TransportError>>
    ELSE IF x.status # StatusOK THEN <<NoPayload, NoError>>
    ELSE IF ~x.readable THEN <<NoPayload, ReadError>>
    ELSE <<x.payload, NoError>>

\* pkg/requests/requests.go: != http.StatusOK gives fmt.Errorf(...)
getBodyFromRequest_requests_go(x) ==
    IF ~x.transport THEN <<NoPayload, TransportError>>
    ELSE IF x.status # StatusOK THEN <<NoPayload, ErrorfError>>
    ELSE IF ~x.readable THEN <<NoPayload, ReadError>>
    ELSE <<x.payload, NoError>>

\* The version with the range test: < 200 || >= 300 gives fmt.Errorf(...)
getBodyFromRequest_part_003(x) ==
    IF ~x.transport THEN <<NoPayload, TransportError>>
    ELSE IF IsNon2xx(x.status) THEN <<NoPayload, ErrorfError>>
    ELSE IF ~x.readable THEN <<NoPayload, ReadError>>
    ELSE <<x.payload, NoError>>

Versions == {"part_001", "requests.go", "part_003"}

InitRequests ==
    /\ InitImport
    /\ parseIn = <<EmptyString, EmptyString>>
    /\ parseOut = NoResult
    /\ splitIn = EmptyString
    /\ splitOut = NoResult
    /\ httpIn \in Exchanges
    /\ httpOut = [v \in Versions |-> NoResult]
    /\ event = NoEvent
    /\ workers = <<>>

Returns(v, result) ==
    /\ httpOut[v] = NoResult
    /\ httpOut' = [httpOut EXCEPT ![v] = result]
    /\ UNCHANGED <<parseVars, splitIn, splitOut, httpIn, event, workers,
                   azureVars, wharfVars, reqVars, envVars>>

GetBody_part_001 == Returns("part_001", getBodyFromRequest_part_001(httpIn))

GetBody_requests_go == Returns("requests.go", getBodyFromRequest_requests_go(httpIn))

GetBody_part_003 == Returns("part_003", getBodyFromRequest_part_003(httpIn))

NextRequests ==
    \/ GetBody_part_001
    \/ GetBody_requests_go
    \/ GetBody_part_003

SpecRequests == InitRequests /\ [][NextRequests]_vars

\* C21 (as stated): getBodyFromRequest returns a non-nil error for every
\* response whose status is outside 200..299, and the body with no error for
\* every response whose status is inside 200..299 and whose body can be read.
C21_StatusClassification ==
    \A v \in Versions :
        (httpOut[v] # NoResult /\ httpIn.transport) =>
            /\ (httpIn.status < 200 \/ httpIn.status > 299) => httpOut[v][2] # NoError
            /\ (httpIn.status >= 200 /\ httpIn.status <= 299 /\ httpIn.readable)
                   => httpOut[v] = <<httpIn.payload, NoError>>

(***************************************************************************)
(* prCreatedTriggerHandler: one trigger request at a time, on the same     *)
(* gin.Context variables (pc, resp, calls) as an import request.           *)
(***************************************************************************)
eventTypePullRequest == "git.pullrequest.created"

StatusUnauthorized == 401

\* The query parameter is not in the URL.
NoQuery == "<missing>"

\* The trigger requests: the body binds or not, and carries an event type and
\* a source ref; the path carries projectid; the query carries environment.
Events ==
    [bind : BOOLEAN,
     eventType : {eventTypePullRequest, "git.commit.pushed", ""},
     sourceRefName : {HeadRef(<<"m">>), <<"m">>, refBranchesPrefix \o HeadRef(<<"m">>)},
     projectid : {<<"7">>, <<"1", "2">>, <<"x">>, <<"-", "1">>, EmptyString},
     environment : {NoQuery, "dev"}]

DigitValue(c) ==
    CASE c = "0" -> 0 [] c = "1" -> 1 [] c = "2" -> 2 [] c = "3" -> 3
      [] c = "4" -> 4 [] c = "5" -> 5 [] c = "6" -> 6 [] c = "7" -> 7
      [] c = "8" -> 8 [] c = "9" -> 9 [] OTHER -> -1

\* strconv.ParseUint(s, 10, ...): <<value, ok>>
RECURSIVE ParseUint(_)
ParseUint(s) ==
    IF s = EmptyString THEN <<0, FALSE>>
    ELSE IF DigitValue(s[Len(s)]) < 0 THEN <<0, FALSE>>
    ELSE IF Len(s) = 1 THEN <<DigitValue(s[1]), TRUE>>
    ELSE LET front == ParseUint(RemoveLast(s))
         IN IF front[2] THEN <<front[1] * 10 + DigitValue(s[Len(s)]), TRUE>>
            ELSE <<0, FALSE>>

\* ginutil.WriteProblemError with Type ".../unsupported-event-type", Status 400
UnsupportedEventProblem ==
    [kind |-> "problem", name |-> "WriteProblemError",
     field |-> "/prob/provider/azuredevops/unsupported-event-type",
     status |-> StatusBadRequest]

\* ginutil.WriteUnauthorizedError
UnauthorizedProblem ==
    [kind |-> "problem", name |-> "WriteUnauthorizedError", field |-> "",
     status |-> StatusUnauthorized]

\* c.JSON(http.StatusOK, resp)
JSONWrite(status, obj) == [kind |-> "json", name |-> "JSON", field |-> obj, status |-> status]

trigFixed == <<parseVars, splitIn, splitOut, httpIn, httpOut, workers, azureVars,
               wharfVars, body, idVars, scope, loopVars, failedRepo, changes, faults>>

InitTrigger ==
    /\ InitImport
    /\ InitParts
    /\ parseIn = <<EmptyString, EmptyString>>
    /\ parseOut = NoResult

ReceiveTrigger ==
    /\ pc \in {"idle", "done"}
    /\ runs < MaxRuns
    /\ runs' = runs + 1
    /\ event' \in Events
    /\ resp' = <<>>
    /\ calls' = <<>>
    /\ pc' = "bind"
    /\ UNCHANGED trigFixed

\* if err := c.ShouldBindJSON(&t); err != nil {
TriggerBind ==
    /\ pc = "bind"
    /\ IF event.bind
       THEN pc' = "checkEvent" /\ UNCHANGED resp
       ELSE Fails("WriteInvalidBindError", "")
    /\ UNCHANGED <<trigFixed, event, calls, runs>>

\* The handler without its test of the event type.
IsSupportedEvent_Always(eventType) == TRUE

\* if t.EventType != eventTypePullRequest {
IsSupportedEvent(eventType) == eventType = eventTypePullRequest

TriggerCheckEventType ==
    /\ pc = "checkEvent"
    /\ IF IsSupportedEvent(event.eventType)
       THEN pc' = "parseProjectID" /\ UNCHANGED resp
       ELSE resp' = Append(resp, UnsupportedEventProblem) /\ pc' = "done"
    /\ UNCHANGED <<trigFixed, event, calls, runs>>

\* projectID, ok := ginutil.ParseParamUint(c, "projectid")
TriggerParseProjectID ==
    /\ pc = "parseProjectID"
    /\ IF ParseUint(event.projectid)[2]
       THEN pc' = "requireEnvironment" /\ UNCHANGED resp
       ELSE Fails("WriteInvalidParamError", "projectid")
    /\ UNCHANGED <<trigFixed, event, calls, runs>>

\* environment, ok := ginutil.RequireQueryString(c, "environment")
TriggerRequireEnvironment ==
    /\ pc = "requireEnvironment"
    /\ IF event.environment # NoQuery
       THEN pc' = "postProjectRun" /\ UNCHANGED resp
       ELSE Fails("WriteInvalidParamError", "environment")
    /\ UNCHANGED <<trigFixed, event, calls, runs>>

\* The branch of the run with the source ref handed on as it is.
RunBranch_Whole(sourceRefName) == sourceRefName

\* Branch: strings.TrimPrefix(t.Resource.SourceRefName, "refs/heads/")
RunBranch(sourceRefName) == TrimPrefix(sourceRefName, refBranchesPrefix)

\* wharfapi.ProjectRun{...}
ProjectRun ==
    [projectID |-> ParseUint(event.projectid)[1], stage |-> "prcreated",
     branch |-> RunBranch(event.sourceRefName), environment |-> event.environment]

\* What the Wharf API answers to POST /project/{projectId}/run: a
\* ProjectRunResponse, an AuthError, or some other error.
RunAnswers ==
    { [outcome |-> "ok", response |-> "buildRef 1"],
      [outcome |-> "ok", response |-> "buildRef 2"],
      [outcome |-> "auth", response |-> ""],
      [outcome |-> "error", response |-> ""] }

TriggerPostProjectRun ==
    /\ pc = "postProjectRun"
    /\ \E a \in RunAnswers :
        /\ calls' = Append(calls, Call("wharf", "PostProjectRun", EmptyString,
                                       [run |-> ProjectRun, answer |-> a]))
        /\ resp' = Append(resp,
                      CASE a.outcome = "auth" -> UnauthorizedProblem
                        [] a.outcome = "error" -> Problem("WriteTriggerError", "")
                        [] OTHER -> JSONWrite(StatusOK, a.response))
    /\ pc' = "done"
    /\ UNCHANGED <<trigFixed, event, runs>>

NextTrigger ==
    \/ ReceiveTrigger
    \/ TriggerBind
    \/ TriggerCheckEventType
    \/ TriggerParseProjectID
    \/ TriggerRequireEnvironment
    \/ TriggerPostProjectRun

SpecTrigger == InitTrigger /\ [][NextTrigger]_vars

IsDecimal(s) ==
    /\ s # EmptyString
    /\ \A k \in 1..Len(s) : s[k] \in {"0", "1", "2", "3", "4", "5", "6", "7", "8", "9"}

TriggerReceived == runs > 0 /\ pc # "idle"

ValidTrigger ==
    /\ TriggerReceived
    /\ event.bind
    /\ event.eventType = "git.pullrequest.created"
    /\ IsDecimal(event.projectid)
    /\ event.environment # NoQuery

\* C22: a trigger request whose event type is not "git.pullrequest.created"
\* ends with the unsupported-event problem (400) and makes no call to the Wharf
\* API; a request whose projectid is no unsigned number or whose environment
\* query parameter is missing ends with a 400 problem for that parameter and
\* makes no call either.
C22_RejectedBeforeAnyCall ==
    /\ (TriggerReceived /\ event.bind /\ event.eventType # "git.pullrequest.created") =>
           /\ calls = <<>>
           /\ pc \in {"bind", "checkEvent", "done"}
           /\ pc = "done" => resp = <<UnsupportedEventProblem>>
    /\ (TriggerReceived /\ ~ValidTrigger) =>
           /\ calls = <<>>
           /\ pc # "postProjectRun"
           /\ pc = "done" =>
                  /\ Len(resp) = 1
                  /\ resp[1].kind = "problem"
                  /\ resp[1].status = StatusBadRequest
    /\ (TriggerReceived /\ event.bind /\ event.eventType = "git.pullrequest.created"
          /\ pc = "done") =>
           /\ ~IsDecimal(event.projectid) =>
                  resp = <<Problem("WriteInvalidParamError", "projectid")>>
           /\ (IsDecimal(event.projectid) /\ event.environment = NoQuery) =>
                  resp = <<Problem("WriteInvalidParamError", "environment")>>

C22_Witness ==
    /\ runs = 2
    /\ pc = "done"
    /\ event.bind
    /\ event.eventType = "git.commit.pushed"
    /\ event.projectid = <<"7">>
    /\ event.environment = "dev"
    /\ resp = <<UnsupportedEventProblem>>
    /\ calls = <<>>

\* The decimal number a string of digits writes.
RECURSIVE DecimalValue(_)
DecimalValue(s) ==
    IF s = EmptyString THEN 0
    ELSE 10 * DecimalValue(SubSeq(s, 1, Len(s) - 1)) + DigitValue(s[Len(s)])

WithoutHeadsPrefix(ref) ==
    IF Len(ref) >= 11 /\ SubSeq(ref, 1, 11) = <<"r", "e", "f", "s", "/", "h", "e", "a", "d", "s", "/">>
    THEN SubSeq(ref, 12, Len(ref))
    ELSE ref

\* C23: a valid trigger request makes one start-build call and no more, for
\* the project ID of the path, the stage "prcreated", the branch sourceRefName
\* without a leading "refs/heads/" and the environment of the query; when the
\* call succeeds the answer is 200 with the Wharf API's response as it came,
\* when it fails the answer is a problem and no second call is made.
C23_OneStartBuildCall ==
    ValidTrigger =>
        /\ Len(calls) <= 1
        /\ \A k \in 1..Len(calls) :
               /\ calls[k].op = "PostProjectRun"
               /\ calls[k].arg.run =
                      [projectID |-> DecimalValue(event.projectid),
                       stage |-> "prcreated",
                       branch |-> WithoutHeadsPrefix(event.sourceRefName),
                       environment |-> event.environment]
        /\ pc = "done" =>
               /\ Len(calls) = 1
               /\ Len(resp) = 1
               /\ IF calls[1].arg.answer.outcome = "ok"
                  THEN resp[1] = [kind |-> "json", name |-> "JSON", status |-> 200,
                                  field |-> calls[1].arg.answer.response]
                  ELSE resp[1].kind = "problem" /\ resp[1].status # 200
        /\ pc # "done" => calls = <<>> /\ resp = <<>>

C23_Witness ==
    /\ pc = "done"
    /\ event.bind
    /\ event.eventType = "git.pullrequest.created"
    /\ event.projectid = <<"1", "2">>
    /\ event.sourceRefName = refBranchesPrefix \o HeadRef(<<"m">>)
    /\ calls # <<>>
    /\ calls[1].arg.run.projectID = 12
    /\ calls[1].arg.run.branch = HeadRef(<<"m">>)
    /\ calls[1].arg.answer.response = "buildRef 2"
    /\ resp = <<JSONWrite(200, "buildRef 2")>>

(***************************************************************************)
(* InitWritesProblem of two import requests served at the same time (gin   *)
(* serves every request on a goroutine of its own, each with its own       *)
(* azureImporter) against one Wharf API.  The requests carry credentials   *)
(* and a URL, no token ID and no provider ID.  calls is the log of the     *)
(* calls of both, in the order the Wharf API served them.                  *)
(***************************************************************************)
ConcurrentRequests == {1, 2}

RaceBodies ==
    { [NoBody EXCEPT !.userName = "u", !.token = k, !.url = u, !.groupName = OrgName] :
          k \in {"k", "k2"}, u \in {GoodURL, OtherURL} }

IdleWorker == [pc |-> "idle", body |-> NoBody, resp |-> <<>>,
               resToken |-> NoToken, resProvider |-> NoProvider]

InitRace ==
    /\ InitImport
    /\ parseIn = <<EmptyString, EmptyString>>
    /\ parseOut = NoResult
    /\ splitIn = EmptyString
    /\ splitOut = NoResult
    /\ httpIn = NoExchange
    /\ httpOut = NoResult
    /\ event = NoEvent
    /\ workers = [w \in ConcurrentRequests |-> IdleWorker]

raceFixed == <<parseVars, splitIn, splitOut, httpIn, httpOut, event, azureVars,
               projects, branches, pc, body, resp, idVars, scope, loopVars,
               failedRepo, changes>>

RaceCall(w, op, key, apiOK) ==
    [sys |-> "wharf", op |-> op, repo |-> EmptyString,
     arg |-> [worker |-> w, key |-> key, ok |-> apiOK]]

\* runAzureDevOpsHandler up to the call of InitWritesProblem, for request w
RaceReceive(w) ==
    /\ workers[w].pc \in {"idle", "resolved", "failed"}
    /\ runs < MaxRuns
    /\ runs' = runs + 1
    /\ \E b \in RaceBodies :
           workers' = [workers EXCEPT ![w] = [IdleWorker EXCEPT !.pc = "getToken",
                                                               !.body = b]]
    /\ UNCHANGED <<raceFixed, tokens, providers, calls, faults>>

\* The token created whatever the search returned.
CreatesToken_Always(apiOK, list) == TRUE

\* if err != nil || len(searchResults.List) == 0 {
CreatesToken(apiOK, list) == ~apiOK \/ Len(list) = 0

\* getOrPostTokenWritesProblem: the search
RaceSearchToken(w) ==
    LET me == workers[w]
    IN /\ me.pc = "getToken"
       /\ \E apiOK \in APIOutcomes :
           /\ CountAPI(apiOK)
           /\ calls' = Append(calls, RaceCall(w, "GetTokenList",
                                              <<me.body.userName, me.body.token>>, apiOK))
           /\ LET list == IF apiOK THEN GetTokenList(me.body.userName) ELSE <<>>
                  found == FoundTokens(list, me.body.token)
              IN workers' = [workers EXCEPT ![w] =
                     IF CreatesToken(apiOK, list)
                     THEN [me EXCEPT !.pc = "createToken"]
                     ELSE IF found # <<>>
                     THEN [me EXCEPT !.pc = "getProvider", !.resToken = Head(found)]
                     ELSE [me EXCEPT !.pc = "failed"]]
       /\ UNCHANGED <<raceFixed, tokens, providers, runs>>

\* getOrPostTokenWritesProblem: i.wharf.CreateToken
RaceCreateToken(w) ==
    LET me == workers[w]
        created == [tokenID |-> Len(tokens) + 1, token |-> me.body.token,
                    userName |-> me.body.userName,
                    providerID |-> me.resProvider.providerID]
    IN /\ me.pc = "createToken"
       /\ \E apiOK \in APIOutcomes :
           /\ CountAPI(apiOK)
           /\ calls' = Append(calls, RaceCall(w, "CreateToken",
                                              <<me.body.userName, me.body.token>>, apiOK))
           /\ IF apiOK
              THEN /\ tokens' = Append(tokens, created)
                   /\ workers' = [workers EXCEPT ![w] =
                          [me EXCEPT !.pc = "getProvider", !.resToken = created]]
              ELSE /\ UNCHANGED tokens
                   /\ workers' = [workers EXCEPT ![w] =
                          [me EXCEPT !.pc = "failed",
                                     !.resp = <<Problem("WriteAPIClientWriteError", "")>>]]
       /\ UNCHANGED <<raceFixed, providers, runs>>

\* getOrPostProviderWritesProblem: the search
RaceSearchProvider(w) ==
    LET me == workers[w]
    IN /\ me.pc = "getProvider"
       /\ \E apiOK \in APIOutcomes :
           /\ CountAPI(apiOK)
           /\ calls' = Append(calls, RaceCall(w, "GetProviderList", me.body.url, apiOK))
           /\ LET list == IF apiOK THEN GetProviderList(apiProviderName, me.body.url)
                          ELSE <<>>
                  found == FoundProviders(list, me.body.url)
              IN workers' = [workers EXCEPT ![w] =
                     IF apiOK /\ found # <<>>
                     THEN [me EXCEPT !.pc = "resolved", !.resProvider = Head(found)]
                     ELSE [me EXCEPT !.pc = "createProvider"]]
       /\ UNCHANGED <<raceFixed, tokens, providers, runs>>

\* getOrPostProviderWritesProblem: i.wharf.CreateProvider
RaceCreateProvider(w) ==
    LET me == workers[w]
        created == [providerID |-> Len(providers) + 1, name |-> apiProviderName,
                    url |-> me.body.url, tokenID |-> ProviderTokenID(me.resToken)]
    IN /\ me.pc = "createProvider"
       /\ \E apiOK \in APIOutcomes :
           /\ CountAPI(apiOK)
           /\ calls' = Append(calls, RaceCall(w, "CreateProvider", me.body.url, apiOK))
           /\ IF apiOK
              THEN /\ providers' = Append(providers, created)
                   /\ workers' = [workers EXCEPT ![w] =
                          [me EXCEPT !.pc = "resolved", !.resProvider = created]]
              ELSE /\ UNCHANGED providers
                   /\ workers' = [workers EXCEPT ![w] =
                          [me EXCEPT !.pc = "failed",
                                     !.resp = <<Problem("WriteAPIClientWriteError", "")>>]]
       /\ UNCHANGED <<raceFixed, tokens, runs>>

NextRace ==
    \E w \in ConcurrentRequests :
        \/ RaceReceive(w)
        \/ RaceSearchToken(w)
        \/ RaceCreateToken(w)
        \/ RaceSearchProvider(w)
        \/ RaceCreateProvider(w)

SpecRace == InitRace /\ [][NextRace]_vars

Creations(op) == {k \in 1..Len(calls) : calls[k].op = op /\ calls[k].arg.ok}

\* The search that made request calls[k].arg.worker go on to the create at k.
SearchBefore(k, searchOp) ==
    CHOOSE j \in 1..(k - 1) :
        /\ calls[j].op = searchOp
        /\ calls[j].arg.worker = calls[k].arg.worker
        /\ \A m \in (j + 1)..(k - 1) :
               ~(calls[m].op = searchOp /\ calls[m].arg.worker = calls[k].arg.worker)

\* Two records were created for one key only where the second creator's search
\* was answered before the first record was created (or was not answered).
OnlyByRace(createOp, searchOp) ==
    \A i, j \in Creations(createOp) :
        (i < j /\ calls[i].arg.key = calls[j].arg.key) =>
            \/ SearchBefore(j, searchOp) < i
            \/ ~calls[SearchBefore(j, searchOp)].arg.ok

DuplicateTokens ==
    \E a, b \in 1..Len(tokens) :
        /\ a # b
        /\ tokens[a].userName = tokens[b].userName
        /\ tokens[a].token = tokens[b].token

DuplicateProviders ==
    \E a, b \in 1..Len(providers) :
        a # b /\ providers[a].name = providers[b].name /\ providers[a].url = providers[b].url

\* C24: two requests with the same new (user, secret) or the same new base URL
\* can both search before either creates and then both create, which leaves two
\* token records (two provider records) for the same key; with every call
\* answered, that interleaving is the only way such duplicates come to exist.
C24_DuplicatesByRace ==
    /\ OnlyByRace("CreateToken", "GetTokenList")
    /\ OnlyByRace("CreateProvider", "GetProviderList")
    /\ Len(tokens) = Cardinality(Creations("CreateToken"))
    /\ Len(providers) = Cardinality(Creations("CreateProvider"))
    /\ faults = 0 =>
           /\ DuplicateTokens =>
                  \E i, j \in Creations("CreateToken") :
                      i < j /\ SearchBefore(j, "GetTokenList") < i
           /\ DuplicateProviders =>
                  \E i, j \in Creations("CreateProvider") :
                      i < j /\ SearchBefore(j, "GetProviderList") < i

\* Both requests searched before either created, for the token and then for
\* the provider; no call failed.
C24_Witness ==
    /\ faults = 0
    /\ runs = 2
    /\ Len(tokens) = 2 /\ DuplicateTokens
    /\ Len(providers) = 2 /\ DuplicateProviders
    /\ Len(calls) = 8
    /\ calls[1].op = "GetTokenList" /\ calls[2].op = "GetTokenList"
    /\ calls[1].arg.worker # calls[2].arg.worker
    /\ calls[3].op = "CreateToken" /\ calls[4].op = "CreateToken"
    /\ calls[5].op = "GetProviderList" /\ calls[6].op = "GetProviderList"
    /\ calls[7].op = "CreateProvider" /\ calls[8].op = "CreateProvider"
    /\ \A w \in ConcurrentRequests : workers[w].pc = "resolved"
    /\ workers[1].resToken # workers[2].resToken
    /\ workers[1].resProvider # workers[2].resProvider

(***************************************************************************)
(* Properties of the order of the steps of one import request.             *)
(***************************************************************************)
TokenOps == {"GetToken", "GetTokenList", "CreateToken"}

ProviderOps == {"GetProvider", "GetProviderList", "CreateProvider"}

ImportOps == {"GetProjects", "GetRepositories", "GetRepository", "GetFile",
              "GetRepositoryBranches", "GetProjectList", "CreateProject",
              "UpdateProject", "CreateProjectBranch"}

\* 0 no request, 1 Uninitialized, 2 IdentityResolved, 3 RegistrationResolved,
\* 4 ScopeResolved and ProjectImported, 5 Done or Failed.
Phase(at) ==
    CASE at = "idle" -> 0
      [] at \in {"getToken", "createToken"} -> 1
      [] at \in {"getProvider", "createProvider"} -> 2
      [] at = "resolveScope" -> 3
      [] at = "done" -> 5
      [] OTHER -> 4

C25_Step ==
    /\ runs' = runs =>
           /\ Phase(pc') \in {Phase(pc), Phase(pc) + 1, 5}
           /\ Phase(pc) \in {0, 5} => calls' = calls
           /\ (Phase(pc) = 1 /\ Phase(pc') = 2) =>
                  resToken' # NoToken /\ resToken' \in SeqToSet(tokens')
           /\ (Phase(pc) = 2 /\ Phase(pc') = 3) =>
                  resProvider' # NoProvider /\ resProvider' \in SeqToSet(providers')
           /\ (pc = "createProvider" /\ providers' # providers) =>
                  /\ providers' = Append(providers, resProvider')
                  /\ resProvider'.tokenID = resToken.tokenID
                  /\ resToken.tokenID \in 1..Len(tokens)
           /\ calls' # calls =>
                  /\ Len(calls') = Len(calls) + 1
                  /\ calls'[Len(calls')].op \in
                         (CASE Phase(pc) = 1 -> TokenOps
                            [] Phase(pc) = 2 -> ProviderOps
                            [] Phase(pc) = 4 -> ImportOps
                            [] OTHER -> {})
    /\ runs' # runs => (Phase(pc) \in {0, 5} /\ Phase(pc') \in {1, 5} /\ calls' = <<>>)

C25_Order ==
    /\ \A a, b \in 1..Len(calls) :
           a < b =>
               /\ calls[b].op \in TokenOps => calls[a].op \in TokenOps
               /\ calls[b].op \in ProviderOps => calls[a].op \in TokenOps \cup ProviderOps
    /\ (\E k \in 1..Len(calls) : calls[k].op \in ProviderOps)
           => resToken # NoToken
    /\ (\E k \in 1..Len(calls) : calls[k].op \in ImportOps)
           => (resToken # NoToken /\ resProvider # NoProvider)
    /\ Phase(pc) \in {3, 4} => (resToken # NoToken /\ resProvider # NoProvider)
    /\ Phase(pc) \in {0, 1} => (resToken = NoToken /\ resProvider = NoProvider)

\* C25: the steps of one import request advance only in the order token,
\* provider, scope, import, end; no provider-registration call is made before
\* the token is resolved, a provider that is created carries the ID of the
\* resolved token, no Azure DevOps call and no project or branch write is made
\* before token and provider are both resolved, and no call is made once the
\* request has ended.
C25_StepOrder == [][C25_Step]_vars /\ []C25_Order

C25_Witness ==
    /\ pc = "done"
    /\ CreatedWritten
    /\ runs = 1
    /\ calls[1].op = "GetTokenList" /\ calls[2].op = "CreateToken"
    /\ calls[3].op = "GetProviderList" /\ calls[4].op = "CreateProvider"
    /\ calls[5].op = "GetRepository"
    /\ LastCallIs("CreateProjectBranch")
    /\ resProvider.tokenID = resToken.tokenID
    /\ resToken.tokenID = 1

\* C26: within one import request the token and the provider are looked up or
\* created during InitWritesProblem only (each call at most once, and none
\* after the first call of the import), and every project the request creates
\* or updates carries the ID of that token and the ID of that provider.
C26_ResolvedOncePerRequest ==
    /\ \A a, b \in 1..Len(calls) :
           (a < b /\ calls[a].op \in ImportOps)
               => calls[b].op \notin TokenOps \cup ProviderOps
    /\ \A op \in TokenOps \cup ProviderOps : Cardinality(CallsOf(op)) <= 1
    /\ \A k \in ProjectWrites :
           /\ WrittenProject(k).tokenID = resToken.tokenID
           /\ WrittenProject(k).providerID = resProvider.providerID
           /\ resToken \in SeqToSet(tokens)
           /\ resProvider \in SeqToSet(providers)
    /\ (pc = "branchLoop" /\ wharfProject # NoProject) =>
           /\ wharfProject.tokenID = resToken.tokenID
           /\ wharfProject.providerID = resProvider.providerID
           /\ projects[wharfProject.projectID] = wharfProject

C26_Witness ==
    /\ runs = 2
    /\ pc = "done"
    /\ CreatedWritten
    /\ scope = <<OrgName, EmptyString, EmptyString>>
    /\ Cardinality(CallsOf("UpdateProject")) = 3
    /\ Cardinality(CallsOf("GetTokenList")) = 1
    /\ Cardinality(CallsOf("GetProviderList")) = 1
    /\ \A k \in ProjectWrites :
           WrittenProject(k).tokenID = 1 /\ WrittenProject(k).providerID = 1

BranchWritesOf(repoID) ==
    {k \in CallsOf("CreateProjectBranch") : calls[k].repo = repoID}

\* C27 (as stated): for each repository imported the branches are written in
\* one call, so a branch write that fails leaves none of that repository's
\* branches written by the request.
C27_BranchesInOneCall ==
    /\ \A id \in RepoIDs : Cardinality(BranchWritesOf(id)) <= 1
    /\ (pc = "done" /\ failedRepo # EmptyString /\ LastCallIs("CreateProjectBranch")) =>
           BranchWritesOf(failedRepo) = {Len(calls)}

\* The place of branch write k among the branch writes for its repository.
BranchWriteIndex(k) ==
    Cardinality({j \in BranchWritesOf(calls[k].repo) : j <= k})

DefaultWritesOf(repoID) ==
    {k \in BranchWritesOf(repoID) : calls[k].arg.branch.default}

\* C28: the n-th branch written for a repository has the name of the n-th ref
\* the provider lists for it, without the leading "refs/heads/", and is marked
\* default exactly when that ref, in full, equals the repository's
\* defaultBranchRef; so at most one branch written for a repository is default,
\* and none is when no ref equals the defaultBranchRef.
C28_DefaultBranchMarking ==
    /\ \A k \in CallsOf("CreateProjectBranch") :
           LET id == calls[k].repo
               ref == AzureRefsInit[id][BranchWriteIndex(k)]
           IN /\ BranchWriteIndex(k) <= Len(AzureRefsInit[id])
              /\ calls[k].arg.branch.name = WithoutHeadsPrefix(ref)
              /\ calls[k].arg.branch.default = (ref = RepoByID(id).defaultBranchRef)
    /\ \A id \in RepoIDs :
           /\ Cardinality(DefaultWritesOf(id)) <= 1
           /\ (\A n \in 1..Len(AzureRefsInit[id]) :
                   AzureRefsInit[id][n] # RepoByID(id).defaultBranchRef)
                  => DefaultWritesOf(id) = {}

C28_Witness ==
    /\ pc = "done"
    /\ CreatedWritten
    /\ scope = <<OrgName, EmptyString, EmptyString>>
    /\ Cardinality(BranchWritesOf(<<"7">>)) = 2
    /\ \E k \in BranchWritesOf(<<"7">>) :
           calls[k].arg.branch = [name |-> <<"m">>, default |-> TRUE]
    /\ \E k \in BranchWritesOf(<<"7">>) :
           calls[k].arg.branch = [name |-> <<"d">>, default |-> FALSE]
    /\ BranchWritesOf(<<"9">>) # {}
    /\ DefaultWritesOf(<<"9">>) = {}
    /\ \E b \in branches : b.name = <<"m">> /\ b.default

CallsFor(op, repoID) == {k \in CallsOf(op) : calls[k].repo = repoID}

WritesFor(repoID) ==
    {k \in ProjectWrites : calls[k].repo = repoID} \cup BranchWritesOf(repoID)

\* C29: for every repository of a request the build definition is fetched,
\* then the branch list, and only then is the project searched and written, and
\* the branches are written only after the project write succeeded; so when one
\* of the two fetches fails, nothing has been written for that repository.
C29_ReadsPrecedeWrites ==
    /\ \A id \in RepoIDs :
           /\ \A b \in CallsFor("GetRepositoryBranches", id) :
                  \E f \in CallsFor("GetFile", id) : f < b
           /\ \A k \in CallsFor("GetProjectList", id) \cup WritesFor(id) :
                  \E b \in CallsFor("GetRepositoryBranches", id) : b < k
           /\ \A k \in BranchWritesOf(id) :
                  \E j \in ProjectWrites :
                      /\ j < k
                      /\ calls[j].repo = id
                      /\ calls[k].arg.projectID \in 1..Len(projects)
                      /\ SameKey(projects[calls[k].arg.projectID], WrittenProject(j))
    /\ (pc = "done" /\ failedRepo # EmptyString
          /\ (LastCallIs("GetFile") \/ LastCallIs("GetRepositoryBranches"))) =>
           /\ WritesFor(failedRepo) = {}
           /\ CallsFor("GetProjectList", failedRepo) = {}
           /\ ProblemWritten /\ ~CreatedWritten

C29_Witness ==
    /\ runs = 1
    /\ pc = "done"
    /\ failedRepo = <<"7">>
    /\ LastCallIs("GetRepositoryBranches")
    /\ CallsFor("GetFile", <<"7">>) # {}
    /\ ProblemWritten
    /\ projects = <<>>
    /\ branches = {}

(***************************************************************************)
(* splitStringOnceRune on its own: the value is a text of up to            *)
(* MaxGroupLen runes, or one of the inputs of TestSplitStringOnceRune, and  *)
(* the delimiter is '/' or the two-byte rune U+00E9.                        *)
(***************************************************************************)
SplitRunes == {"a", "/", "U+00E9"}

RECURSIVE TextsOfLen(_)
TextsOfLen(n) ==
    IF n = 0 THEN {EmptyString}
    ELSE {s \o EncodeRune(r) : s \in TextsOfLen(n - 1), r \in SplitRunes}

\* The inputs of TestSplitStringOnceRune.
Foo == <<"f", "o", "o">>

BarMoo == <<"b", "a", "r", "/", "m", "o", "o">>

SplitExamples == {Foo, Foo \o Slash, Slash \o Foo, Foo \o Slash \o BarMoo}

SplitValues == UNION {TextsOfLen(n) : n \in 0..MaxGroupLen} \cup SplitExamples

SplitDelimiters == {"/", "U+00E9"}

InitSplit ==
    /\ InitImport
    /\ parseIn = <<EmptyString, EmptyString>>
    /\ parseOut = NoResult
    /\ splitIn \in SplitValues \X SplitDelimiters
    /\ splitOut = NoResult
    /\ httpIn = NoExchange
    /\ httpOut = NoResult
    /\ event = NoEvent
    /\ workers = <<>>

SplitStep ==
    /\ splitOut = NoResult
    /\ splitOut' = splitStringOnceRune(splitIn[1], splitIn[2])
    /\ UNCHANGED <<parseVars, splitIn, httpIn, httpOut, event, workers,
                   azureVars, wharfVars, reqVars, envVars>>

NextSplit == SplitStep

SpecSplit == InitSplit /\ [][NextSplit]_vars

\* The places where the encoding of rune d starts in value.
Occurrences(value, d) ==
    {i \in 1..Len(value) :
         /\ i + Len(EncodeRune(d)) - 1 <= Len(value)
         /\ SubSeq(value, i, i + Len(EncodeRune(d)) - 1) = EncodeRune(d)}

====
